---- MODULE Spec2Model ----
(***************************************************************************)
(* A model of the spaced-repetition core of mnemo: the scheduler           *)
(* (scheduleCard and its two branches, getNextIntervals), the study-queue  *)
(* builder (buildStudyQueue, getReinsertPosition), the study session that  *)
(* drives them (Study.tsx: loadQueue, handleRating) and the cloze          *)
(* deletions (parseClozeText, parseClozeForDisplay, renderClozeQuestion,   *)
(* renderClozeAnswer, createClozeCards, validateCard).                     *)
(*                                                                         *)
(* Number representation.  The source computes in IEEE doubles; the model  *)
(* is fixed point:                                                         *)
(*   - easeFactor, easyBonus, hardMultiplier, intervalMultiplier are in    *)
(*     hundredths (2.5 is 250, the decrements 0.2 and 0.15 are 20 and 15); *)
(*   - interval is in whole minutes, as the Card type stores it; a product *)
(*     that is not a whole number of minutes is rounded down;              *)
(*   - timestamps (now, nextReview, updatedAt) are in seconds, so MINUTE   *)
(*     is 60 and DAY is 86400 where the source has milliseconds;           *)
(*   - undefined (an absent stepIndex) and NaN (arithmetic on an absent    *)
(*     ladder entry) are the values Undefined and NaN below.               *)
(***************************************************************************)
EXTENDS Integers, Sequences, FiniteSets, TLC

VARIABLES
    card,         \* scheduler: the item as last returned (or as drawn)
    result,       \* scheduler: the SchedulingResult of the last call
    trace,        \* scheduler: the calls made so far, <<[rating, card, at]>>
    nextIntervals,\* scheduler: what getNextIntervals last returned
    settings,     \* the UserSettings in force
    now,          \* Date.now(), seconds
    dueCards,     \* queue builder: the caller's dueCards array
    newCards,     \* queue builder: the caller's newCards array
    newCardsLimit,\* queue builder: the cap argument
    built,        \* queue builder: the returned queue, or <<>> before the call
    phase,        \* which step the specification in use is at
    cards,        \* session: the db.cards table, in table order
    reviewLogs,   \* session: the db.reviewLogs table
    queue,        \* session: Study's queue state
    currentIndex, \* session: Study's currentIndex state (0-based)
    showAnswer,   \* session: Study's showAnswer state
    sessionStats, \* session: Study's sessionStats state
    cardStartTime,\* session: Study's cardStartTime state
    dailyStats,   \* session: today's db.dailyStats record, <<>> when none
    lastRated,    \* session: the last handleRating call, [rating, index]
    inFlight,     \* session: the handleRating calls awaiting a write, oldest first
    authored,     \* cloze: the pieces the text was written from
    front,        \* cloze: the text entered (formData.front, the import line)
    parsed,       \* cloze: what parseClozeText last returned
    shown,        \* cloze: what parseClozeForDisplay last returned, and for what
    rendered,     \* cloze: what renderClozeQuestion/Answer last returned
    validation,   \* cloze: what validateCard last returned
    created       \* cloze: the items added to the store

vars == <<card, result, trace, nextIntervals, settings, now, dueCards,
          newCards, newCardsLimit, built, phase, cards, reviewLogs, queue,
          currentIndex, showAnswer, sessionStats, cardStartTime, dailyStats,
          lastRated, inFlight, authored, front, parsed, shown, rendered, validation,
          created>>

schedVars == <<card, result, trace, nextIntervals>>
builderVars == <<dueCards, newCards, newCardsLimit, built>>
sessionVars == <<cards, reviewLogs, queue, currentIndex, showAnswer,
                 sessionStats, cardStartTime, dailyStats, lastRated, inFlight>>
clozeVars == <<authored, front, parsed, shown, rendered, validation, created>>

-----------------------------------------------------------------------------
(* Values and constants of theme.ts                                        *)

Undefined == 0 - 1
NaN == 0 - 2

Ratings == {"again", "hard", "good", "easy"}
LearningStates == {"new", "learning", "review", "mature"}

MIN_EASE_FACTOR == 130
MINUTE == 60
HOUR == 60 * MINUTE
DAY == 24 * HOUR
MinutesPerDay == DAY \div MINUTE
MatureDays == 21
RelearningStep == 10
InterleaveEvery == 10
ReinsertMin == 8
ReinsertMax == 12

Max(a, b) == IF a >= b THEN a ELSE b
Min(a, b) == IF a <= b THEN a ELSE b

\* a * num / den rounded down, for a >= 0
Scale(a, num, den) == (a * num) \div den

\* x + y * unit in the source's arithmetic: NaN when y is an absent entry
PlusTimes(x, y, unit) == IF y = NaN THEN NaN ELSE x + y * unit

DEFAULT_SETTINGS ==
    [defaultNewCardsPerDay |-> 20, defaultEaseFactor |-> 250,
     easyBonus |-> 130, hardMultiplier |-> 120, intervalMultiplier |-> 100,
     maxInterval |-> 365, learningSteps |-> <<1, 10>>,
     graduatingInterval |-> 1]

-----------------------------------------------------------------------------
(* The scheduler                                                           *)

\* steps[i] for a 0-based i: an index outside the array reads undefined,
\* and every use of the entry is arithmetic, which gives NaN
StepAt(steps, i) == IF i + 1 \in DOMAIN steps THEN steps[i + 1] ELSE NaN

\* card.stepIndex ?? 0
CurrentStep(c) == IF c.stepIndex = Undefined THEN 0 ELSE c.stepIndex

getLearningState(intervalMinutes) ==
    IF intervalMinutes >= MatureDays * MinutesPerDay THEN "mature" ELSE "review"

\* The floor Math.max(MIN_EASE_FACTOR, ease) of the branches that lower the ease
FloorEase(ease) == Max(MIN_EASE_FACTOR, ease)

\* learningAgain never counting a lapse
learningAgain_NeverLapses(c, s, t) ==
    [card |-> [c EXCEPT !.learningState = "learning",
                        !.easeFactor = FloorEase(c.easeFactor - 20),
                        !.repetitions = 0,
                        !.stepIndex = 0],
     nextReview |-> PlusTimes(t, StepAt(s.learningSteps, 0), MINUTE)]

\* learningAgain counting a lapse for a new item too
learningAgain_AlwaysLapses(c, s, t) ==
    [card |-> [c EXCEPT !.learningState = "learning",
                        !.easeFactor = FloorEase(c.easeFactor - 20),
                        !.repetitions = 0,
                        !.lapses = c.lapses + 1,
                        !.stepIndex = 0],
     nextReview |-> PlusTimes(t, StepAt(s.learningSteps, 0), MINUTE)]

\* new/learning, 'again': back to the first step
learningAgain(c, s, t) ==
    [card |-> [c EXCEPT !.learningState = "learning",
                        !.easeFactor = FloorEase(c.easeFactor - 20),
                        !.repetitions = 0,
                        !.lapses = c.lapses + (IF c.learningState = "learning" THEN 1 ELSE 0),
                        !.stepIndex = 0],
     nextReview |-> PlusTimes(t, StepAt(s.learningSteps, 0), MINUTE)]

\* learningHard leaving the learning state as it was
learningHard_KeepsState(c, s, t) ==
    LET currentStep == CurrentStep(c)
        step == StepAt(s.learningSteps, currentStep)
    IN  [card |-> [c EXCEPT !.stepIndex = currentStep],
         nextReview |-> IF step = NaN THEN NaN ELSE t + (step * 3 * MINUTE) \div 2]

\* learningHard with the ease penalty of the review branch's 'hard'
learningHard_LowersEase(c, s, t) ==
    LET currentStep == CurrentStep(c)
        step == StepAt(s.learningSteps, currentStep)
    IN  [card |-> [c EXCEPT !.learningState = "learning",
                            !.easeFactor = FloorEase(c.easeFactor - 15),
                            !.stepIndex = currentStep],
         nextReview |-> IF step = NaN THEN NaN ELSE t + (step * 3 * MINUTE) \div 2]

\* new/learning, 'hard': the current step again, 1.5 times as long
learningHard(c, s, t) ==
    LET currentStep == CurrentStep(c)
        step == StepAt(s.learningSteps, currentStep)
    IN  [card |-> [c EXCEPT !.learningState = "learning",
                            !.stepIndex = currentStep],
         nextReview |-> IF step = NaN THEN NaN ELSE t + (step * 3 * MINUTE) \div 2]

\* learningGood graduating to the interval the item carries when that is the
\* longer one, as a relearning that resumed from the halved interval would
learningGood_ResumesInterval(c, s, t) ==
    LET nextStep == CurrentStep(c) + 1
        resumed == Max(c.interval, s.graduatingInterval * MinutesPerDay)
    IN  IF nextStep >= Len(s.learningSteps)
        THEN [card |-> [c EXCEPT !.learningState = "review",
                                 !.interval = resumed,
                                 !.repetitions = 1,
                                 !.stepIndex = Undefined],
              nextReview |-> t + resumed * MINUTE]
        ELSE [card |-> [c EXCEPT !.learningState = "learning",
                                 !.stepIndex = nextStep],
              nextReview |-> PlusTimes(t, StepAt(s.learningSteps, nextStep), MINUTE)]

\* learningGood counting every 'good', a step climbed as well as a graduation
learningGood_CountsStep(c, s, t) ==
    LET nextStep == CurrentStep(c) + 1
    IN  IF nextStep >= Len(s.learningSteps)
        THEN [card |-> [c EXCEPT !.learningState = "review",
                                 !.interval = s.graduatingInterval * MinutesPerDay,
                                 !.repetitions = 1,
                                 !.stepIndex = Undefined],
              nextReview |-> t + s.graduatingInterval * DAY]
        ELSE [card |-> [c EXCEPT !.learningState = "learning",
                                 !.repetitions = c.repetitions + 1,
                                 !.stepIndex = nextStep],
              nextReview |-> PlusTimes(t, StepAt(s.learningSteps, nextStep), MINUTE)]

\* learningGood graduating one 'good' late (> for >=)
learningGood_GraduatesLate(c, s, t) ==
    LET nextStep == CurrentStep(c) + 1
    IN  IF nextStep > Len(s.learningSteps)
        THEN [card |-> [c EXCEPT !.learningState = "review",
                                 !.interval = s.graduatingInterval * MinutesPerDay,
                                 !.repetitions = 1,
                                 !.stepIndex = Undefined],
              nextReview |-> t + s.graduatingInterval * DAY]
        ELSE [card |-> [c EXCEPT !.learningState = "learning",
                                 !.stepIndex = nextStep],
              nextReview |-> PlusTimes(t, StepAt(s.learningSteps, nextStep), MINUTE)]

\* new/learning, 'good': the next step, or graduation past the last one
learningGood(c, s, t) ==
    LET nextStep == CurrentStep(c) + 1
    IN  IF nextStep >= Len(s.learningSteps)
        THEN [card |-> [c EXCEPT !.learningState = "review",
                                 !.interval = s.graduatingInterval * MinutesPerDay,
                                 !.repetitions = 1,
                                 !.stepIndex = Undefined],
              nextReview |-> t + s.graduatingInterval * DAY]
        ELSE [card |-> [c EXCEPT !.learningState = "learning",
                                 !.stepIndex = nextStep],
              nextReview |-> PlusTimes(t, StepAt(s.learningSteps, nextStep), MINUTE)]

\* learningEasy classifying the graduating interval as the review branch does
learningEasy_Classified(c, s, t) ==
    LET easyInterval == Scale(s.graduatingInterval * MinutesPerDay, s.easyBonus, 100)
    IN  [card |-> [c EXCEPT !.learningState = getLearningState(easyInterval),
                            !.interval = easyInterval,
                            !.easeFactor = c.easeFactor + 15,
                            !.repetitions = 1,
                            !.stepIndex = Undefined],
         nextReview |-> t + easyInterval * MINUTE]

\* learningEasy graduating with the interval of 'good', without the bonus
learningEasy_NoBonus(c, s, t) ==
    LET easyInterval == s.graduatingInterval * MinutesPerDay
    IN  [card |-> [c EXCEPT !.learningState = "review",
                            !.interval = easyInterval,
                            !.easeFactor = c.easeFactor + 15,
                            !.repetitions = 1,
                            !.stepIndex = Undefined],
         nextReview |-> t + easyInterval * MINUTE]

\* new/learning, 'easy': graduation with the bonus interval
learningEasy(c, s, t) ==
    LET easyInterval == Scale(s.graduatingInterval * MinutesPerDay, s.easyBonus, 100)
    IN  [card |-> [c EXCEPT !.learningState = "review",
                            !.interval = easyInterval,
                            !.easeFactor = c.easeFactor + 15,
                            !.repetitions = 1,
                            !.stepIndex = Undefined],
         nextReview |-> t + easyInterval * MINUTE]

handleLearningCard(c, rating, s, t) ==
    CASE rating = "again" -> learningAgain(c, s, t)
      [] rating = "hard" -> learningHard(c, s, t)
      [] rating = "good" -> learningGood(c, s, t)
      [] rating = "easy" -> learningEasy(c, s, t)

\* Math.min(newInterval, settings.maxInterval), in minutes
Capped(newInterval, s) == Min(newInterval, s.maxInterval * MinutesPerDay)

\* reviewAgain counting the lapse as the learning branch does
reviewAgain_LapseIfLearning(c, s, t) ==
    [card |-> [c EXCEPT !.learningState = "learning",
                        !.easeFactor = FloorEase(c.easeFactor - 20),
                        !.repetitions = 0,
                        !.lapses = c.lapses + (IF c.learningState = "learning" THEN 1 ELSE 0),
                        !.interval = Max(MinutesPerDay, c.interval \div 2),
                        !.stepIndex = 0],
     nextReview |-> t + RelearningStep * MINUTE]

\* reviewAgain leaving stepIndex as graduation left it (undefined)
reviewAgain_KeepsStep(c, s, t) ==
    [card |-> [c EXCEPT !.learningState = "learning",
                        !.easeFactor = FloorEase(c.easeFactor - 20),
                        !.repetitions = 0,
                        !.lapses = c.lapses + 1,
                        !.interval = Max(MinutesPerDay, c.interval \div 2)],
     nextReview |-> t + RelearningStep * MINUTE]

\* reviewAgain due after the first learning step instead of its own step
reviewAgain_FirstLearningStep(c, s, t) ==
    [card |-> [c EXCEPT !.learningState = "learning",
                        !.easeFactor = FloorEase(c.easeFactor - 20),
                        !.repetitions = 0,
                        !.lapses = c.lapses + 1,
                        !.interval = Max(MinutesPerDay, c.interval \div 2),
                        !.stepIndex = 0],
     nextReview |-> PlusTimes(t, StepAt(s.learningSteps, 0), MINUTE)]

\* review/mature, 'again': the item is forgotten
reviewAgain(c, s, t) ==
    [card |-> [c EXCEPT !.learningState = "learning",
                        !.easeFactor = FloorEase(c.easeFactor - 20),
                        !.repetitions = 0,
                        !.lapses = c.lapses + 1,
                        !.interval = Max(MinutesPerDay, c.interval \div 2),
                        !.stepIndex = 0],
     nextReview |-> t + RelearningStep * MINUTE]

\* reviewHard without the cap of maxInterval
reviewHard_Uncapped(c, s, t) ==
    LET newInterval == Scale(c.interval, s.hardMultiplier, 100)
    IN  [card |-> [c EXCEPT !.learningState = getLearningState(newInterval),
                            !.easeFactor = FloorEase(c.easeFactor - 15),
                            !.interval = newInterval,
                            !.repetitions = c.repetitions + 1],
         nextReview |-> t + newInterval * MINUTE]

\* review/mature, 'hard'
reviewHard(c, s, t) ==
    LET cappedInterval == Capped(Scale(c.interval, s.hardMultiplier, 100), s)
    IN  [card |-> [c EXCEPT !.learningState = getLearningState(cappedInterval),
                            !.easeFactor = FloorEase(c.easeFactor - 15),
                            !.interval = cappedInterval,
                            !.repetitions = c.repetitions + 1],
         nextReview |-> t + cappedInterval * MINUTE]

\* reviewGood setting repetitions as a graduation does
reviewGood_RepetitionsOne(c, s, t) ==
    LET newInterval ==
            Scale(Scale(c.interval, c.easeFactor, 100), s.intervalMultiplier, 100)
        cappedInterval == Capped(newInterval, s)
    IN  [card |-> [c EXCEPT !.learningState = getLearningState(cappedInterval),
                            !.interval = cappedInterval,
                            !.repetitions = 1],
         nextReview |-> t + cappedInterval * MINUTE]

\* reviewGood classifying the interval before the cap is applied
reviewGood_StateBeforeCap(c, s, t) ==
    LET newInterval ==
            Scale(Scale(c.interval, c.easeFactor, 100), s.intervalMultiplier, 100)
        cappedInterval == Capped(newInterval, s)
    IN  [card |-> [c EXCEPT !.learningState = getLearningState(newInterval),
                            !.interval = cappedInterval,
                            !.repetitions = c.repetitions + 1],
         nextReview |-> t + cappedInterval * MINUTE]

\* reviewGood multiplying by intervalMultiplier alone, the ease left out
reviewGood_NoEase(c, s, t) ==
    LET newInterval == Scale(c.interval, s.intervalMultiplier, 100)
        cappedInterval == Capped(newInterval, s)
    IN  [card |-> [c EXCEPT !.learningState = getLearningState(cappedInterval),
                            !.interval = cappedInterval,
                            !.repetitions = c.repetitions + 1],
         nextReview |-> t + cappedInterval * MINUTE]

\* review/mature, 'good'
reviewGood(c, s, t) ==
    LET newInterval ==
            Scale(Scale(c.interval, c.easeFactor, 100), s.intervalMultiplier, 100)
        cappedInterval == Capped(newInterval, s)
    IN  [card |-> [c EXCEPT !.learningState = getLearningState(cappedInterval),
                            !.interval = cappedInterval,
                            !.repetitions = c.repetitions + 1],
         nextReview |-> t + cappedInterval * MINUTE]

\* reviewEasy classifying the interval before the cap is applied
reviewEasy_StateBeforeCap(c, s, t) ==
    LET newInterval ==
            Scale(Scale(Scale(c.interval, c.easeFactor, 100), s.easyBonus, 100),
                  s.intervalMultiplier, 100)
        cappedInterval == Capped(newInterval, s)
    IN  [card |-> [c EXCEPT !.learningState = getLearningState(newInterval),
                            !.easeFactor = c.easeFactor + 15,
                            !.interval = cappedInterval,
                            !.repetitions = c.repetitions + 1],
         nextReview |-> t + cappedInterval * MINUTE]

\* review/mature, 'easy'
reviewEasy(c, s, t) ==
    LET newInterval ==
            Scale(Scale(Scale(c.interval, c.easeFactor, 100), s.easyBonus, 100),
                  s.intervalMultiplier, 100)
        cappedInterval == Capped(newInterval, s)
    IN  [card |-> [c EXCEPT !.learningState = getLearningState(cappedInterval),
                            !.easeFactor = c.easeFactor + 15,
                            !.interval = cappedInterval,
                            !.repetitions = c.repetitions + 1],
         nextReview |-> t + cappedInterval * MINUTE]

handleReviewCard(c, rating, s, t) ==
    CASE rating = "again" -> reviewAgain(c, s, t)
      [] rating = "hard" -> reviewHard(c, s, t)
      [] rating = "good" -> reviewGood(c, s, t)
      [] rating = "easy" -> reviewEasy(c, s, t)

scheduleCard(c, rating, s, t) ==
    LET updatedCard == [c EXCEPT !.updatedAt = t]
    IN  IF c.learningState = "new" \/ c.learningState = "learning"
        THEN handleLearningCard(updatedCard, rating, s, t)
        ELSE handleReviewCard(updatedCard, rating, s, t)

\* scheduleCard handing back its argument changed, as Object.assign(card, ...)
\* in place of the spreads would
scheduleCardArgument_Assigned(c, rating, s, t) ==
    LET r == scheduleCard(c, rating, s, t)
    IN  [r.card EXCEPT !.nextReview = r.nextReview]

\* The argument object after scheduleCard(c, rating, s) has returned: the call
\* copies it ({...card, updatedAt: now}) and every branch spreads the copy
scheduleCardArgument(c, rating, s, t) == c

\* Math.round(x / unit) for x >= 0
Round(x, unit) == (2 * x + unit) \div (2 * unit)

\* formatInterval(ms), the delay in seconds: the string as [n, unit], "<1m"
\* being n = 0 and the years' one decimal being n in tenths.  A NaN delay
\* fails every comparison and is formatted by the last branch ("NaNy")
formatInterval(ms) ==
    IF ms = NaN THEN [n |-> NaN, unit |-> "y"]
    ELSE IF ms < MINUTE THEN [n |-> 0, unit |-> "<1m"]
    ELSE IF ms < HOUR THEN [n |-> Round(ms, MINUTE), unit |-> "m"]
    ELSE IF ms < DAY THEN [n |-> Round(ms, HOUR), unit |-> "h"]
    ELSE IF ms < 30 * DAY THEN [n |-> Round(ms, DAY), unit |-> "d"]
    ELSE IF ms < 365 * DAY THEN [n |-> Round(ms, 30 * DAY), unit |-> "mo"]
    ELSE [n |-> Round(10 * ms, 365 * DAY), unit |-> "y"]

\* nextReview - Date.now()
Minus(nextReview, t) == IF nextReview = NaN THEN NaN ELSE nextReview - t

\* getNextIntervals called at time t, its Date.now() for the difference read
\* elapsed later than scheduleCard's
getNextIntervals(c, s, t, elapsed) ==
    [rating \in Ratings |->
        formatInterval(Minus(scheduleCard(c, rating, s, t).nextReview, t + elapsed))]

\* The argument object after getNextIntervals' loop over the four ratings
RECURSIVE ArgumentAfter(_, _, _, _)
ArgumentAfter(c, ratings, s, t) ==
    IF ratings = <<>> THEN c
    ELSE ArgumentAfter(scheduleCardArgument(c, Head(ratings), s, t),
                       Tail(ratings), s, t)

-----------------------------------------------------------------------------
(* The queue builder                                                       *)

\* {...c, field: value, ...}: the fields of overrides, and c's other fields
Spread(c, overrides) == overrides @@ c

\* x put into a list sorted by nextReview, after the entries that do not
\* compare greater (Array.prototype.sort is stable)
InsertByNextReview(sorted, x) ==
    LET before == Cardinality({j \in DOMAIN sorted : sorted[j].nextReview <= x.nextReview})
    IN  SubSeq(sorted, 1, before) \o <<x>> \o SubSeq(sorted, before + 1, Len(sorted))

RECURSIVE SortPrefix(_, _)
SortPrefix(list, n) ==
    IF n = 0 THEN <<>> ELSE InsertByNextReview(SortPrefix(list, n - 1), list[n])

\* The sort with its comparator reversed
SortByNextReview_Descending(list) ==
    [i \in DOMAIN list |-> SortPrefix(list, Len(list))[Len(list) + 1 - i]]

\* [...list].sort((a, b) => a.nextReview - b.nextReview)
SortByNextReview(list) == SortPrefix(list, Len(list))

\* slice taking one item too many
SliceTo_OneMore(list, limit) == SubSeq(list, 1, Min(limit + 1, Len(list)))

\* list.slice(0, limit), for limit >= 0
SliceTo(list, limit) == SubSeq(list, 1, Min(limit, Len(list)))

\* The interleave test counting from the wrong end of the block of ten
TakesNew_OffByOne(i, newIndex, limitedNew) ==
    i % InterleaveEvery = 0 /\ newIndex < Len(limitedNew)

\* The test of the interleave loop at 0-based i: a new entry follows the due one
TakesNew(i, newIndex, limitedNew) ==
    (i + 1) % InterleaveEvery = 0 /\ newIndex < Len(limitedNew)

DueEntry(c) == Spread(c, [isNew |-> FALSE])
NewEntry(c) == Spread(c, [isNew |-> TRUE, stepIndex |-> 0])

\* The for loop from 0-based i on, then the while loop
RECURSIVE Interleave(_, _, _, _, _)
Interleave(sortedDue, limitedNew, i, newIndex, q) ==
    IF i < Len(sortedDue)
    THEN LET withDue == Append(q, DueEntry(sortedDue[i + 1]))
         IN  IF TakesNew(i, newIndex, limitedNew)
             THEN Interleave(sortedDue, limitedNew, i + 1, newIndex + 1,
                             Append(withDue, NewEntry(limitedNew[newIndex + 1])))
             ELSE Interleave(sortedDue, limitedNew, i + 1, newIndex, withDue)
    ELSE IF newIndex < Len(limitedNew)
         THEN Interleave(sortedDue, limitedNew, i, newIndex + 1,
                         Append(q, NewEntry(limitedNew[newIndex + 1])))
         ELSE q

\* The returned queue, and the two argument arrays as the call leaves them: the
\* sort works on a copy ([...dueCards]) and slice returns a new array
buildStudyQueue(due, new, limit) ==
    [queue |-> Interleave(SortByNextReview(due), SliceTo(new, limit), 0, 0, <<>>),
     dueCards |-> due,
     newCards |-> new]

\* getReinsertPosition without its lower end
getReinsertPosition_FromZero(queueLength) == 0 .. Min(ReinsertMax, queueLength)

\* Math.floor(Math.random() * (maxPosition - minPosition + 1)) + minPosition:
\* the values the call can return
getReinsertPosition(queueLength) ==
    Min(ReinsertMin, queueLength) .. Min(ReinsertMax, queueLength)

\* createCard's item, with the id the caller adds; it carries no stepIndex
createCard(id, s, t) ==
    [id |-> id, learningState |-> "new", easeFactor |-> s.defaultEaseFactor,
     interval |-> 0, repetitions |-> 0, lapses |-> 0, stepIndex |-> Undefined,
     nextReview |-> t, updatedAt |-> t]

-----------------------------------------------------------------------------
(* Cloze deletions (card-utils).  A text is a sequence of characters, each *)
(* a one-character string; positions are 1-based where the source's are    *)
(* 0-based.  An absent capture group (match[3]) is the empty sequence,     *)
(* which no present group can be.                                          *)

DigitChars == <<"0", "1", "2", "3", "4", "5", "6", "7", "8", "9">>
IsDigit(ch) == \E d \in DOMAIN DigitChars : DigitChars[d] = ch
DigitValue(ch) == (CHOOSE d \in DOMAIN DigitChars : DigitChars[d] = ch) - 1

\* parseInt(digits, 10) for a run of digits
RECURSIVE ParseInt(_)
ParseInt(digits) ==
    IF digits = <<>> THEN 0
    ELSE 10 * ParseInt(SubSeq(digits, 1, Len(digits) - 1))
           + DigitValue(digits[Len(digits)])

\* The literal lit stands in text at position i
HasAt(text, i, lit) ==
    /\ i + Len(lit) - 1 <= Len(text)
    /\ \A k \in DOMAIN lit : text[i + k - 1] = lit[k]

Least(S) == CHOOSE j \in S : \A k \in S : j <= k

\* Where the longest run of \d from position i ends (the position after it)
DigitsEnd(text, i) ==
    Least({j \in i..(Len(text) + 1) : j = Len(text) + 1 \/ ~IsDigit(text[j])})

\* Where the longest run of [^stops] from position i ends
RunEnd(text, i, stops) ==
    Least({j \in i..(Len(text) + 1) : j = Len(text) + 1 \/ text[j] \in stops})

NoMatch == [index |-> 0]

\* /\{\{c(\d+)::([^:}]+)(?:::([^}]+))?\}\}/ tried at position p.  Each run is
\* followed by a character outside its class, so only the longest run can
\* match; the optional group is tried first, then the pattern without it
MatchAt(text, p) ==
    IF ~HasAt(text, p, <<"{", "{", "c">>) THEN NoMatch
    ELSE
      LET d0 == p + 3
          d1 == DigitsEnd(text, d0)
          c0 == d1 + 2
          c1 == RunEnd(text, c0, {":", "}"})
          h0 == c1 + 2
          h1 == RunEnd(text, h0, {"}"})
          groups == [index |-> p, digits |-> SubSeq(text, d0, d1 - 1),
                     content |-> SubSeq(text, c0, c1 - 1)]
      IN  IF d1 = d0 \/ ~HasAt(text, d1, <<":", ":">>) \/ c1 = c0 THEN NoMatch
          ELSE IF /\ HasAt(text, c1, <<":", ":">>)
                  /\ h1 > h0
                  /\ HasAt(text, h1, <<"}", "}">>)
               THEN groups @@ [hint |-> SubSeq(text, h0, h1 - 1), end |-> h1 + 2]
          ELSE IF HasAt(text, c1, <<"}", "}">>)
               THEN groups @@ [hint |-> <<>>, end |-> c1 + 2]
          ELSE NoMatch

\* clozePattern.exec(text) with lastIndex from: the leftmost match at or after
\* from, or NoMatch
Exec(text, from) ==
    LET starts == {p \in from..Len(text) : MatchAt(text, p) # NoMatch}
    IN  IF starts = {} THEN NoMatch ELSE MatchAt(text, Least(starts))

TextPart(content) == [type |-> "text", content |-> content, index |-> 0]

\* The text between lastIndex and position upTo, pushed when it is not empty
WithTextBefore(parts, text, lastIndex, upTo) ==
    IF upTo > lastIndex
    THEN Append(parts, TextPart(SubSeq(text, lastIndex, upTo - 1)))
    ELSE parts

\* maxClozeIndex counting the matches
NextMaxClozeIndex_CountsMatches(maxClozeIndex, clozeIndex) == maxClozeIndex + 1

\* Math.max(maxClozeIndex, clozeIndex)
NextMaxClozeIndex(maxClozeIndex, clozeIndex) == Max(maxClozeIndex, clozeIndex)

\* The while loop of parseClozeText, then the remaining text
RECURSIVE ParseFrom(_, _, _, _)
ParseFrom(text, lastIndex, parts, maxClozeIndex) ==
    LET match == Exec(text, lastIndex)
    IN  IF match = NoMatch
        THEN [parts |-> WithTextBefore(parts, text, lastIndex, Len(text) + 1),
              clozeCount |-> maxClozeIndex]
        ELSE LET clozeIndex == ParseInt(match.digits)
             IN  ParseFrom(text, match.end,
                    Append(WithTextBefore(parts, text, lastIndex, match.index),
                           [type |-> "cloze", content |-> match.content,
                            hint |-> match.hint, index |-> clozeIndex]),
                    NextMaxClozeIndex(maxClozeIndex, clozeIndex))

parseClozeText(text) == ParseFrom(text, 1, <<>>, 0)

Ellipsis == <<".", ".", ".">>

\* parseClozeForDisplay hiding or revealing every deletion, whatever its slot
DisplayPart_HidesEvery(match, showIndex, isAnswer) ==
    IF isAnswer
    THEN [type |-> "revealed", content |-> match.content, hint |-> match.hint]
    ELSE [type |-> "blank", hint |-> match.hint,
          content |-> IF match.hint = <<>> THEN Ellipsis ELSE match.hint]

\* The part parseClozeForDisplay pushes for a match
DisplayPart(match, showIndex, isAnswer) ==
    IF ParseInt(match.digits) = showIndex
    THEN IF isAnswer
         THEN [type |-> "revealed", content |-> match.content, hint |-> match.hint]
         ELSE [type |-> "blank", hint |-> match.hint,
               content |-> IF match.hint = <<>> THEN Ellipsis ELSE match.hint]
    ELSE [type |-> "text", content |-> match.content]

DisplayText(content) == [type |-> "text", content |-> content]

RECURSIVE DisplayFrom(_, _, _, _, _)
DisplayFrom(text, showIndex, isAnswer, lastIndex, parts) ==
    LET match == Exec(text, lastIndex)
        before(upTo) ==
            IF upTo > lastIndex
            THEN Append(parts, DisplayText(SubSeq(text, lastIndex, upTo - 1)))
            ELSE parts
    IN  IF match = NoMatch
        THEN before(Len(text) + 1)
        ELSE DisplayFrom(text, showIndex, isAnswer, match.end,
                         Append(before(match.index),
                                DisplayPart(match, showIndex, isAnswer)))

parseClozeForDisplay(text, showIndex, isAnswer) ==
    DisplayFrom(text, showIndex, isAnswer, 1, <<>>)

\* The replacer of renderClozeQuestion
QuestionReplacement(match, showIndex) ==
    IF ParseInt(match.digits) = showIndex
    THEN IF match.hint # <<>> THEN <<"[">> \o match.hint \o <<"]">>
         ELSE <<"[", ".", ".", ".", "]">>
    ELSE match.content

\* The replacer of renderClozeAnswer
AnswerReplacement(match, showIndex) ==
    IF ParseInt(match.digits) = showIndex
    THEN <<"*", "*">> \o match.content \o <<"*", "*">>
    ELSE match.content

\* text.replace(clozePattern, replacer) from position lastIndex on: every
\* match, left to right, gives way to its replacement and the text between
\* the matches stays
RECURSIVE ReplaceFrom(_, _, _, _)
ReplaceFrom(text, showIndex, isAnswer, lastIndex) ==
    LET match == Exec(text, lastIndex)
    IN  IF match = NoMatch
        THEN SubSeq(text, lastIndex, Len(text))
        ELSE SubSeq(text, lastIndex, match.index - 1)
               \o (IF isAnswer THEN AnswerReplacement(match, showIndex)
                   ELSE QuestionReplacement(match, showIndex))
               \o ReplaceFrom(text, showIndex, isAnswer, match.end)

renderClozeQuestion(text, showIndex) == ReplaceFrom(text, showIndex, FALSE, 1)

renderClozeAnswer(text, showIndex) == ReplaceFrom(text, showIndex, TRUE, 1)

Whitespace == {" "}

\* String.prototype.trim
Trim(text) ==
    LET inked == {i \in DOMAIN text : text[i] \notin Whitespace}
    IN  IF inked = {} THEN <<>>
        ELSE SubSeq(text, Least(inked), CHOOSE j \in inked : \A k \in inked : k <= j)

\* back || text
OrElse(back, text) == IF back = <<>> THEN text ELSE back

\* The item of slot i that createClozeCards and the create forms build, at
\* time t; it carries no stepIndex
ClozeItem(text, back, i, ease, t) ==
    [type |-> "cloze", front |-> text, back |-> OrElse(back, text),
     clozeIndex |-> i, easeFactor |-> ease, interval |-> 0, repetitions |-> 0,
     learningState |-> "new", nextReview |-> t, lapses |-> 0,
     stepIndex |-> Undefined, createdAt |-> t, updatedAt |-> t]

MaxSideLength == 10000

\* The errors validateCard pushes, in its order
FrontEmpty(sideFront) ==
    IF Trim(sideFront) = <<>> THEN <<"Front side cannot be empty">> ELSE <<>>
BackEmpty(sideBack, type) ==
    IF type = "basic" /\ Trim(sideBack) = <<>>
    THEN <<"Back side cannot be empty for basic cards">> ELSE <<>>
NoDeletion(sideFront, type) ==
    IF type = "cloze" /\ parseClozeText(sideFront).clozeCount = 0
    THEN <<"Cloze cards must have at least one cloze deletion">> ELSE <<>>
TooLong(side, message) ==
    IF Len(side) > MaxSideLength THEN <<message>> ELSE <<>>

\* validateCard without its check of the deletions
validateCard_SidesOnly(sideFront, sideBack, type) ==
    LET errors == FrontEmpty(sideFront) \o BackEmpty(sideBack, type)
                    \o TooLong(sideFront, "Front side is too long")
                    \o TooLong(sideBack, "Back side is too long")
    IN  [isValid |-> errors = <<>>, errors |-> errors]

validateCard(sideFront, sideBack, type) ==
    LET errors == FrontEmpty(sideFront) \o BackEmpty(sideBack, type)
                    \o NoDeletion(sideFront, type)
                    \o TooLong(sideFront, "Front side is too long")
                    \o TooLong(sideBack, "Back side is too long")
    IN  [isValid |-> errors = <<>>, errors |-> errors]

\* createClozeCards looping over the matches instead of the slots
createClozeCards_OnePerMatch(text, back, ease, t) ==
    LET clozes == SelectSeq(parseClozeText(text).parts,
                            LAMBDA part : part.type = "cloze")
    IN  [i \in 1..Len(clozes) |-> ClozeItem(text, back, i, ease, t)]

createClozeCards(text, back, ease, t) ==
    LET clozeCount == parseClozeText(text).clozeCount
    IN  [i \in 1..clozeCount |-> ClozeItem(text, back, i, ease, t)]

-----------------------------------------------------------------------------
(* Scheduler specification: scheduleCard applied, up to MaxRatings times,  *)
(* to an item drawn from Items under settings drawn from SettingsSet, the  *)
(* caller writing the result back as Study.tsx's handleRating does.        *)

MaxRatings == 2

EaseFactors == {100, 140, 200, 250}
Intervals == {0, 1440, 28800, 144000}
Repetitions == {0, 2}
Lapses == {0, 1}
StepIndexes == {Undefined, 0, 1}
Times == {1000, 1600}

SettingsSet ==
    { DEFAULT_SETTINGS,
      [DEFAULT_SETTINGS EXCEPT !.learningSteps = <<5>>, !.graduatingInterval = 3,
                               !.easyBonus = 150, !.maxInterval = 30],
      [DEFAULT_SETTINGS EXCEPT !.learningSteps = <<2, 5, 20>>,
                               !.intervalMultiplier = 110, !.maxInterval = 100],
      [DEFAULT_SETTINGS EXCEPT !.learningSteps = <<>>],
      [DEFAULT_SETTINGS EXCEPT !.maxInterval = 10] }

Items ==
    { [id |-> 1, learningState |-> ls, easeFactor |-> ef, interval |-> iv,
       repetitions |-> rp, lapses |-> lp, stepIndex |-> si, nextReview |-> 0,
       updatedAt |-> 0, isNew |-> (ls = "new")] :
         ls \in LearningStates, ef \in EaseFactors, iv \in Intervals,
         rp \in Repetitions, lp \in Lapses, si \in StepIndexes }

NoResult == [card |-> <<>>, nextReview |-> NaN]
\* { again: '', hard: '', good: '', easy: '' }
EmptyString == [n |-> 0, unit |-> ""]
NoIntervals == [rating \in Ratings |-> EmptyString]
NoCards == <<>>
NoStats == [reviewed |-> 0, correct |-> 0, newLearned |-> 0]
NoRated == [rating |-> "none", index |-> 0]

BuilderIdle ==
    /\ dueCards = NoCards
    /\ newCards = NoCards
    /\ newCardsLimit = 0
    /\ built = NoCards

NoParse == [parts |-> <<>>, clozeCount |-> 0]
NoDisplay == [target |-> 0, isAnswer |-> FALSE, parts |-> <<>>]
NoRender == [target |-> 0, isAnswer |-> FALSE, text |-> <<>>]
NoValidation == [type |-> "", isValid |-> TRUE, errors |-> <<>>]

ClozeIdle ==
    /\ authored = <<>>
    /\ front = <<>>
    /\ parsed = NoParse
    /\ shown = NoDisplay
    /\ rendered = NoRender
    /\ validation = NoValidation
    /\ created = <<>>

SessionIdle ==
    /\ cards = NoCards
    /\ reviewLogs = <<>>
    /\ queue = NoCards
    /\ currentIndex = 0
    /\ showAnswer = FALSE
    /\ sessionStats = NoStats
    /\ cardStartTime = 0
    /\ dailyStats = <<>>
    /\ lastRated = NoRated
    /\ inFlight = <<>>

SchedInit ==
    /\ card \in Items
    /\ settings \in SettingsSet
    /\ result = NoResult
    /\ trace = <<>>
    /\ nextIntervals = NoIntervals
    /\ now = 1000
    /\ phase = "scheduler"
    /\ BuilderIdle
    /\ SessionIdle
    /\ ClozeIdle

\* One rating: result = scheduleCard(card, rating, settings) at time t, and the
\* item kept is {...result.card, nextReview: result.nextReview}
Rate(rating, t) ==
    /\ Len(trace) < MaxRatings
    /\ t >= now
    /\ now' = t
    /\ result' = scheduleCard(card, rating, settings, t)
    /\ card' = [result'.card EXCEPT !.nextReview = result'.nextReview]
    /\ trace' = Append(trace, [rating |-> rating, at |-> t,
                                card |-> scheduleCardArgument(card, rating, settings, t)])
    /\ UNCHANGED <<nextIntervals, settings, phase, builderVars, sessionVars, clozeVars>>

SchedNext == \E rating \in Ratings, t \in Times : Rate(rating, t)

SchedSpec == SchedInit /\ [][SchedNext]_vars

\* The last call's argument (as the call left it), rating and time
Called == Len(trace) > 0
Input == trace[Len(trace)].card
Rating == trace[Len(trace)].rating
At == trace[Len(trace)].at
InReview(c) == c.learningState \in {"review", "mature"}

-----------------------------------------------------------------------------
(* Preview specification: the rating buttons' intervals are computed by    *)
(* getNextIntervals any number of times before the item is rated, as       *)
(* Study.tsx does on every render of the current card.                     *)

MaxPreviewedRatings == 1

\* The clock's advance between scheduleCard's Date.now() and the one
\* getNextIntervals subtracts
Elapsed == {0, 1}

\* The items previewed: those of Items not yet reviewed (the counters take no
\* part in a preview)
PreviewItems == {c \in Items : c.repetitions = 0 /\ c.lapses = 0}

PreviewInit ==
    /\ card \in PreviewItems
    /\ settings \in SettingsSet
    /\ result = NoResult
    /\ trace = <<>>
    /\ nextIntervals = NoIntervals
    /\ now = 1000
    /\ phase = "preview"
    /\ BuilderIdle
    /\ SessionIdle
    /\ ClozeIdle

\* nextIntervals = getNextIntervals(card, settings), called at the time now
Preview(elapsed) ==
    /\ phase = "preview"
    /\ nextIntervals' = getNextIntervals(card, settings, now, elapsed)
    /\ card' = ArgumentAfter(card, <<"again", "hard", "good", "easy">>, settings, now)
    /\ UNCHANGED <<result, trace, settings, now, phase, builderVars,
                   sessionVars, clozeVars>>

RatePreviewed(rating, t) ==
    /\ phase = "preview"
    /\ Len(trace) < MaxPreviewedRatings
    /\ Rate(rating, t)

PreviewNext ==
    \/ \E elapsed \in Elapsed : Preview(elapsed)
    \/ \E rating \in Ratings, t \in Times : RatePreviewed(rating, t)

PreviewSpec == PreviewInit /\ [][PreviewNext]_vars

-----------------------------------------------------------------------------
(* Queue builder specification: buildStudyQueue applied once to a due list *)
(* of up to MaxDue items supplied in one of Orders, a new list of up to    *)
(* MaxNew items and a cap of up to MaxLimit.                               *)

MaxDue == 21
MaxNew == 3
MaxLimit == 4

\* <<stride, modulus>>: the i-th supplied due item has nextReview
\* (stride * i) % modulus: ascending, descending, scrambled, and two with ties
Orders == {<<1, 997>>, <<996, 997>>, <<7, 23>>, <<1, 3>>, <<2, 5>>}

\* A stored item that is due: graduated, reviewed once
DueItem(id, nextReview) ==
    [id |-> id, learningState |-> "review", easeFactor |-> 250,
     interval |-> 1440, repetitions |-> 1, lapses |-> 0, stepIndex |-> Undefined,
     nextReview |-> nextReview, updatedAt |-> 0]

DueList(n, order) == [i \in 1..n |-> DueItem(i, (order[1] * i) % order[2])]
NewList(n, s, t) == [j \in 1..n |-> createCard(1000 + j, s, t)]

SchedIdle ==
    /\ card = <<>>
    /\ result = NoResult
    /\ trace = <<>>
    /\ nextIntervals = NoIntervals

BuilderInit ==
    /\ settings = DEFAULT_SETTINGS
    /\ now = 1000
    /\ \E n \in 0..MaxDue, order \in Orders : dueCards = DueList(n, order)
    /\ \E n \in 0..MaxNew : newCards = NewList(n, settings, 0)
    /\ newCardsLimit \in 0..MaxLimit
    /\ built = NoCards
    /\ phase = "builder"
    /\ SchedIdle
    /\ SessionIdle
    /\ ClozeIdle

\* The call: the returned queue, and the argument arrays after it
BuildQueue ==
    /\ phase = "builder"
    /\ LET r == buildStudyQueue(dueCards, newCards, newCardsLimit)
       IN  /\ built' = r.queue
           /\ dueCards' = r.dueCards
           /\ newCards' = r.newCards
    /\ phase' = "built"
    /\ UNCHANGED <<newCardsLimit, settings, now, schedVars, sessionVars, clozeVars>>

BuilderNext == BuildQueue

BuilderSpec == BuilderInit /\ [][BuilderNext]_vars

-----------------------------------------------------------------------------
(* The study session (Study.tsx), with the shuffle toggle off: loadQueue   *)
(* builds the queue from the stored items, the answer is revealed, a       *)
(* rating is handled.  A handleRating call runs to its end before the next *)
(* one starts.                                                             *)

IsDue(c) == c.nextReview <= now /\ c.learningState # "new"
IsNewItem(c) == c.learningState = "new"

\* getDueCards: the stored items that are due, in table order
getDueCards(table) == SelectSeq(table, IsDue)

\* getNewCards: the first limit stored items that are new, in table order
getNewCards(table, limit) == SliceTo(SelectSeq(table, IsNewItem), limit)

\* db.cards.update(id, changes): the changed keys of the stored item with that id
UpdateItem(table, id, changes) ==
    [k \in DOMAIN table |->
        IF table[k].id = id THEN Spread(table[k], changes) ELSE table[k]]

\* newQueue.splice(pos, 0, entry) for a 0-based pos
Splice(q, pos, entry) ==
    SubSeq(q, 1, pos) \o <<entry>> \o SubSeq(q, pos + 1, Len(q))

\* Math.min(currentIndex + getReinsertPosition(remaining), queue.length):
\* the indices the entry can be re-inserted at
ReinsertPositions(q, index) ==
    {Min(index + r, Len(q)) : r \in getReinsertPosition(Len(q) - index)}

\* The queue after the rating: 'again' re-inserts the updated entry at pos
QueueAfter(q, rating, pos, r) ==
    IF rating = "again"
    THEN Splice(q, pos, Spread(r.card, [nextReview |-> r.nextReview, isNew |-> FALSE]))
    ELSE q

\* The test that moves to the next entry; it reads the queue the handler
\* was created with
HasNext(q, index) == index + 1 < Len(q)

MaxSessionRatings == 3

SessionDue == {0, 1, 2, 11}
SessionNew == {0, 1, 2}

\* A stored item that is not due yet
LaterItem == DueItem(2000, 5000)

SessionTable(nDue, nNew, s) ==
    DueList(nDue, <<7, 23>>) \o NewList(nNew, s, 0) \o <<LaterItem>>

Init ==
    /\ settings = DEFAULT_SETTINGS
    /\ now = 1000
    /\ \E nDue \in SessionDue, nNew \in SessionNew :
          cards = SessionTable(nDue, nNew, settings)
    /\ reviewLogs = <<>>
    /\ queue = NoCards
    /\ currentIndex = 0
    /\ showAnswer = FALSE
    /\ sessionStats = NoStats
    /\ cardStartTime = now
    /\ dailyStats = <<>>
    /\ lastRated = NoRated
    /\ inFlight = <<>>
    /\ phase = "loading"
    /\ SchedIdle
    /\ BuilderIdle
    /\ ClozeIdle

\* loadQueue
LoadQueue ==
    /\ phase = "loading"
    /\ LET limit == settings.defaultNewCardsPerDay
       IN  queue' = buildStudyQueue(getDueCards(cards), getNewCards(cards, limit),
                                    limit).queue
    /\ currentIndex' = 0
    /\ showAnswer' = FALSE
    /\ cardStartTime' = now
    /\ phase' = "studying"
    /\ UNCHANGED <<cards, reviewLogs, sessionStats, dailyStats, lastRated, inFlight,
                   settings, now, schedVars, builderVars, clozeVars>>

\* Space, Enter or the button: the answer is shown
ShowAnswer ==
    /\ phase = "studying"
    /\ ~showAnswer
    /\ showAnswer' = TRUE
    /\ UNCHANGED <<cards, reviewLogs, queue, currentIndex, sessionStats,
                   cardStartTime, dailyStats, lastRated, inFlight, phase, settings, now,
                   schedVars, builderVars, clozeVars>>

\* handleRating(rating) at time t, re-inserting at pos when the rating is
\* 'again'; it returns at once when there is no current card
HandleRating(rating, pos, t) ==
    /\ phase = "studying"
    /\ showAnswer
    /\ currentIndex < Len(queue)
    /\ sessionStats.reviewed < MaxSessionRatings
    /\ t >= now
    /\ LET currentCard == queue[currentIndex + 1]
           r == scheduleCard(currentCard, rating, settings, t)
       IN  /\ cards' = UpdateItem(cards, currentCard.id,
                                  Spread(r.card, [nextReview |-> r.nextReview]))
           /\ reviewLogs' = Append(reviewLogs,
                  [cardId |-> currentCard.id, rating |-> rating,
                   interval |-> r.card.interval, easeFactor |-> r.card.easeFactor,
                   reviewedAt |-> t, timeTaken |-> t - cardStartTime])
           /\ sessionStats' =
                  [reviewed |-> sessionStats.reviewed + 1,
                   correct |-> sessionStats.correct + (IF rating # "again" THEN 1 ELSE 0),
                   newLearned |-> sessionStats.newLearned + (IF currentCard.isNew THEN 1 ELSE 0)]
           /\ queue' = QueueAfter(queue, rating, pos, r)
    /\ IF HasNext(queue, currentIndex)
       THEN /\ currentIndex' = currentIndex + 1
            /\ showAnswer' = FALSE
            /\ cardStartTime' = t
            /\ UNCHANGED <<phase, dailyStats>>
       ELSE \* finishSession, with the sessionStats of the handler's render
            /\ dailyStats' = [cardsReviewed |-> sessionStats.reviewed,
                              cardsCorrect |-> sessionStats.correct,
                              newCardsStudied |-> sessionStats.newLearned]
            /\ phase' = "finished"
            /\ UNCHANGED <<currentIndex, showAnswer, cardStartTime>>
    /\ lastRated' = [rating |-> rating, index |-> currentIndex]
    /\ now' = t
    /\ UNCHANGED <<inFlight, settings, schedVars, builderVars, clozeVars>>

RateCurrent ==
    \E rating \in Ratings, t \in Times :
        \E pos \in ReinsertPositions(queue, currentIndex) :
            HandleRating(rating, pos, t)

Next == LoadQueue \/ ShowAnswer \/ RateCurrent

Spec == Init /\ [][Next]_vars

-----------------------------------------------------------------------------
(* Cloze specification: a text written from up to MaxPieces pieces is      *)
(* parsed, displayed for a target slot, or made into items by the create   *)
(* form or the bulk import.                                                *)

MaxPieces == 2

\* A deletion {{cK::answer}} or {{cK::answer::hint}} as characters
Deletion(k, answer, hint) ==
    <<"{", "{", "c">> \o k \o <<":", ":">> \o answer
        \o (IF hint = <<>> THEN <<>> ELSE <<":", ":">> \o hint) \o <<"}", "}">>

\* A piece of text that is a deletion of slot k, and one that is inert
DeletionPiece(k, answer, hint) ==
    [chars |-> Deletion(k, answer, hint), deletion |-> TRUE,
     slot |-> ParseInt(k), answer |-> answer, hint |-> hint]
InertPiece(chars) ==
    [chars |-> chars, deletion |-> FALSE, slot |-> 0, answer |-> <<>>,
     hint |-> <<>>]

\* Deletions of slots 1 (twice, once with a hint), 2, 3, 12 and 0; plain
\* text, a space, and markers that are not deletions: one colon, a slot that
\* is no number, one closing brace, an empty answer
Pieces ==
    { DeletionPiece(<<"1">>, <<"a">>, <<>>),
      DeletionPiece(<<"1">>, <<"b">>, <<"h">>),
      DeletionPiece(<<"2">>, <<"b", " ", "b">>, <<>>),
      DeletionPiece(<<"3">>, <<"a">>, <<"h", ":">>),
      DeletionPiece(<<"1", "2">>, <<"a">>, <<>>),
      DeletionPiece(<<"0">>, <<"a">>, <<>>),
      InertPiece(<<"i", "s">>),
      InertPiece(<<" ">>),
      InertPiece(<<"{", "{", "c", "1", ":", "a", "}", "}">>),
      InertPiece(<<"{", "{", "c", "x", ":", ":", "a", "}", "}">>),
      InertPiece(<<"{", "{", "c", "2", ":", ":", "a", "}">>),
      InertPiece(<<"{", "{", "c", "3", ":", ":", "}", "}">>) }

RECURSIVE TextOf(_)
TextOf(pieces) ==
    IF pieces = <<>> THEN <<>> ELSE Head(pieces).chars \o TextOf(Tail(pieces))

Targets == {1, 2, 3}
CardTypes == {"basic", "cloze"}
Backs == {<<>>, <<"z", " ">>}
\* The clock's advance from one Date.now() of the create form to the next
Ticks == {0, 1}

ClozeInit ==
    /\ settings = DEFAULT_SETTINGS
    /\ now = 1000
    /\ \E n \in 0..MaxPieces : authored \in [1..n -> Pieces]
    /\ front = TextOf(authored)
    /\ parsed = NoParse
    /\ shown = NoDisplay
    /\ rendered = NoRender
    /\ validation = NoValidation
    /\ created = <<>>
    /\ phase = "authoring"
    /\ SchedIdle
    /\ BuilderIdle
    /\ SessionIdle

ClozeFrame ==
    UNCHANGED <<authored, front, settings, now, schedVars, builderVars,
                sessionVars>>

\* parseClozeText(front)
ParseCloze ==
    /\ phase = "authoring"
    /\ parsed' = parseClozeText(front)
    /\ phase' = "parsed"
    /\ UNCHANGED <<shown, rendered, validation, created>>
    /\ ClozeFrame

\* Study's card face: parseClozeForDisplay(front, clozeIndex, isAnswer)
DisplayCloze(target, isAnswer) ==
    /\ phase = "authoring"
    /\ shown' = [target |-> target, isAnswer |-> isAnswer,
                 parts |-> parseClozeForDisplay(front, target, isAnswer)]
    /\ phase' = "shown"
    /\ UNCHANGED <<parsed, rendered, validation, created>>
    /\ ClozeFrame

\* The list's card face, renderClozeQuestion(front, clozeIndex), and its
\* counterpart renderClozeAnswer
RenderCloze(target, isAnswer) ==
    /\ phase = "authoring"
    /\ rendered' = [target |-> target, isAnswer |-> isAnswer,
                    text |-> IF isAnswer THEN renderClozeAnswer(front, target)
                             ELSE renderClozeQuestion(front, target)]
    /\ phase' = "rendered"
    /\ UNCHANGED <<parsed, shown, validation, created>>
    /\ ClozeFrame

\* validateCard(front, back, type)
ValidateCard(back, type) ==
    /\ phase = "authoring"
    /\ validation' = [type |-> type] @@ validateCard(front, back, type)
    /\ phase' = "validated"
    /\ UNCHANGED <<parsed, shown, rendered, created>>
    /\ ClozeFrame

\* handleCreateCard of the create form, cloze branch: an empty front or a text
\* without a slot is refused; item i is built at its own Date.now()
HandleCreate(back, tick) ==
    /\ phase = "authoring"
    /\ LET clozeCount == parseClozeText(front).clozeCount
           trimmedFront == Trim(front)
           trimmedBack == Trim(back)
       IN  IF trimmedFront = <<>> \/ clozeCount = 0
           THEN /\ phase' = "refused"
                /\ UNCHANGED created
           ELSE /\ created' =
                      [i \in 1..clozeCount |->
                          ClozeItem(trimmedFront, trimmedBack, i,
                                    settings.defaultEaseFactor,
                                    now + tick * (i - 1))]
                /\ phase' = "created"
    /\ UNCHANGED <<parsed, shown, rendered, validation>>
    /\ ClozeFrame

\* The bulk import of the one line front: the line is trimmed, refused when
\* it is empty or has no slot, and handleBulkImport makes the items
BulkImport ==
    /\ phase = "authoring"
    /\ LET trimmedLine == Trim(front)
       IN  IF trimmedLine = <<>> \/ parseClozeText(trimmedLine).clozeCount = 0
           THEN /\ phase' = "refused"
                /\ UNCHANGED created
           ELSE /\ created' = createClozeCards(trimmedLine, <<>>,
                                               settings.defaultEaseFactor, now)
                /\ phase' = "imported"
    /\ UNCHANGED <<parsed, shown, rendered, validation>>
    /\ ClozeFrame

Displays == \E target \in Targets, isAnswer \in BOOLEAN : DisplayCloze(target, isAnswer)
Renders == \E target \in Targets, isAnswer \in BOOLEAN : RenderCloze(target, isAnswer)
Validates == \E back \in Backs, type \in CardTypes : ValidateCard(back, type)
Creates == \E back \in Backs, tick \in Ticks : HandleCreate(back, tick)

ClozeNext ==
    ParseCloze \/ Displays \/ Renders \/ Validates \/ Creates \/ BulkImport

ClozeSpec == ClozeInit /\ [][ClozeNext]_vars

-----------------------------------------------------------------------------
(* The study session with handleRating taken apart at its awaits: a step   *)
(* ends where the handler waits for db.cards.update and for                *)
(* db.reviewLogs.add, and the page can go away (closed, reloaded, or the   *)
(* pending write rejected, which handleRating does not catch) at any of    *)
(* these points.  result and lastRated hold the handler's locals.          *)

\* Up to `await db.cards.update(...)`: the item is scheduled and written
RatingUpdateCard(rating, t) ==
    /\ phase = "studying"
    /\ showAnswer
    /\ currentIndex < Len(queue)
    /\ sessionStats.reviewed < MaxSessionRatings
    /\ t >= now
    /\ LET currentCard == queue[currentIndex + 1]
           r == scheduleCard(currentCard, rating, settings, t)
       IN  /\ result' = r
           /\ cards' = UpdateItem(cards, currentCard.id,
                                  Spread(r.card, [nextReview |-> r.nextReview]))
    /\ lastRated' = [rating |-> rating, index |-> currentIndex]
    /\ now' = t
    /\ phase' = "updated"
    /\ UNCHANGED <<reviewLogs, queue, currentIndex, showAnswer, sessionStats,
                   cardStartTime, dailyStats, inFlight, settings, card, trace,
                   nextIntervals, builderVars, clozeVars>>

\* Up to `await db.reviewLogs.add(...)`: the review is logged
RatingAddLog ==
    /\ phase = "updated"
    /\ reviewLogs' = Append(reviewLogs,
           [cardId |-> queue[currentIndex + 1].id, rating |-> lastRated.rating,
            interval |-> result.card.interval,
            easeFactor |-> result.card.easeFactor,
            reviewedAt |-> now, timeTaken |-> now - cardStartTime])
    /\ phase' = "logged"
    /\ UNCHANGED <<cards, queue, currentIndex, showAnswer, sessionStats,
                   cardStartTime, dailyStats, lastRated, inFlight, settings, now,
                   schedVars, builderVars, clozeVars>>

\* The rest of the handler: statistics, re-insertion at pos, the next entry
\* or finishSession
RatingAdvance(pos) ==
    /\ phase = "logged"
    /\ LET currentCard == queue[currentIndex + 1]
           rating == lastRated.rating
       IN  /\ sessionStats' =
                  [reviewed |-> sessionStats.reviewed + 1,
                   correct |-> sessionStats.correct + (IF rating # "again" THEN 1 ELSE 0),
                   newLearned |-> sessionStats.newLearned + (IF currentCard.isNew THEN 1 ELSE 0)]
           /\ queue' = QueueAfter(queue, rating, pos, result)
    /\ IF HasNext(queue, currentIndex)
       THEN /\ currentIndex' = currentIndex + 1
            /\ showAnswer' = FALSE
            /\ cardStartTime' = now
            /\ phase' = "studying"
            /\ UNCHANGED dailyStats
       ELSE /\ dailyStats' = [cardsReviewed |-> sessionStats.reviewed,
                              cardsCorrect |-> sessionStats.correct,
                              newCardsStudied |-> sessionStats.newLearned]
            /\ phase' = "finished"
            /\ UNCHANGED <<currentIndex, showAnswer, cardStartTime>>
    /\ UNCHANGED <<cards, reviewLogs, lastRated, inFlight, settings, now, schedVars,
                   builderVars, clozeVars>>

\* The page goes away; the stored tables stay as they are
PageGone ==
    /\ phase \in {"studying", "updated", "logged"}
    /\ phase' = "gone"
    /\ UNCHANGED <<cards, reviewLogs, queue, currentIndex, showAnswer,
                   sessionStats, cardStartTime, dailyStats, lastRated, inFlight, settings,
                   now, schedVars, builderVars, clozeVars>>

RatingStarts == \E rating \in Ratings, t \in Times : RatingUpdateCard(rating, t)
RatingEnds == \E pos \in ReinsertPositions(queue, currentIndex) : RatingAdvance(pos)

AwaitNext ==
    LoadQueue \/ ShowAnswer \/ RatingStarts \/ RatingAddLog \/ RatingEnds \/ PageGone

AwaitSpec == Init /\ [][AwaitNext]_vars

-----------------------------------------------------------------------------
(* Scheduler claims                                                        *)

\* C1: for every item and every rating, in both branches, the item returned
\* by scheduleCard has easeFactor >= 1.3, whatever ease the input carried.
C1_EaseFactorFloor ==
    Called => result.card.easeFactor >= MIN_EASE_FACTOR

AllGood == \A k \in DOMAIN trace : trace[k].rating = "good"
FromNewAtStepZero ==
    /\ Called
    /\ trace[1].card.learningState = "new"
    /\ trace[1].card.stepIndex = 0

\* C7: from a new item at step 0 and a ladder of n >= 1 steps, the k-th
\* consecutive 'good' for k < n leaves the item learning at stepIndex k, due
\* learningSteps[k] minutes after the call; the n-th graduates it to review
\* with interval graduatingInterval * 1440, repetitions 1, due
\* graduatingInterval days after the call.  Under the default settings the
\* two steps are +10 minutes and interval 1440 / +1 day.
C7_GoodClimbsLadder ==
    LET steps == settings.learningSteps
        n == Len(steps)
        k == Len(trace)
    IN  (FromNewAtStepZero /\ AllGood /\ n >= 1 /\ k <= n) =>
          /\ k < n =>
               /\ result.card.learningState = "learning"
               /\ result.card.stepIndex = k
               /\ result.nextReview = At + steps[k + 1] * MINUTE
               /\ card.nextReview = result.nextReview
          /\ k = n =>
               /\ result.card.learningState = "review"
               /\ result.card.interval = settings.graduatingInterval * 1440
               /\ result.card.repetitions = 1
               /\ result.nextReview = At + settings.graduatingInterval * DAY
          /\ (settings = DEFAULT_SETTINGS /\ k = 1) =>
               /\ result.card.learningState = "learning"
               /\ result.nextReview = At + 600
          /\ (settings = DEFAULT_SETTINGS /\ k = 2) =>
               /\ result.card.learningState = "review"
               /\ result.card.interval = 1440
               /\ result.nextReview = At + 86400

C7_Witness ==
    /\ FromNewAtStepZero
    /\ AllGood
    /\ settings = DEFAULT_SETTINGS
    /\ Len(trace) = 2
    /\ card.learningState = "review"
    /\ trace[2].card.learningState = "learning"
    /\ trace[2].card.stepIndex = 1

\* C8: 'again' on a review or mature item yields learningState learning,
\* lapses increased by exactly 1, repetitions 0 and stepIndex 0.
C8_ReviewAgainLapses ==
    (Called /\ InReview(Input) /\ Rating = "again") =>
        /\ result.card.learningState = "learning"
        /\ result.card.lapses = Input.lapses + 1
        /\ result.card.repetitions = 0
        /\ result.card.stepIndex = 0

C8_Witness ==
    /\ Called
    /\ Input.learningState = "mature"
    /\ Input.lapses = 1
    /\ Input.repetitions = 2
    /\ Rating = "again"
    /\ result.card.lapses = 2

\* C9: 'hard', 'good' or 'easy' on a review or mature item returns an item
\* whose repetitions is the input's repetitions + 1.
C9_ReviewRepetitions ==
    (Called /\ InReview(Input) /\ Rating \in {"hard", "good", "easy"}) =>
        result.card.repetitions = Input.repetitions + 1

C9_Witness ==
    /\ Len(trace) = 2
    /\ InReview(trace[1].card)
    /\ trace[1].card.repetitions = 2
    /\ trace[1].rating = "hard"
    /\ trace[2].rating = "easy"
    /\ result.card.repetitions = 4

\* C10: after any of the four ratings applied to a review or mature item the
\* stored interval is at most maxInterval days, in minutes.
C10_IntervalWithinMax ==
    (Called /\ InReview(Input)) =>
        result.card.interval <= settings.maxInterval * 1440

\* C11: every graduation (a new or learning item leaving the ladder by 'good'
\* on the last step or by 'easy') returns an item without stepIndex, and no
\* item the scheduler returns in review or mature state carries a stepIndex.
C11_GraduationClearsStepIndex ==
    Called =>
        /\ (~InReview(Input) /\ InReview(result.card)) =>
               result.card.stepIndex = Undefined
        /\ InReview(result.card) => result.card.stepIndex = Undefined

\* C13: for a new or learning item whose ladder is empty or whose stepIndex is
\* at or past the ladder's end, every rating graduates the item and the
\* returned nextReview is a defined timestamp.
C13_PastLadderGraduates ==
    (Called /\ ~InReview(Input)
            /\ CurrentStep(Input) >= Len(settings.learningSteps)) =>
        /\ result.nextReview # NaN
        /\ result.nextReview >= At
        /\ InReview(result.card)

\* C15: 'good' on a review or mature item stores the interval
\* min(days * easeFactor * intervalMultiplier, maxInterval) days in minutes,
\* leaves easeFactor as it was, sets nextReview to the call's time plus that
\* interval, and makes the item mature iff that interval is at least 21 days
\* and review otherwise; interval 1440 with ease 2.5 and multiplier 1.0 gives
\* 3600 minutes and review.
C15_ReviewGoodInterval ==
    (Called /\ InReview(Input) /\ Rating = "good") =>
        LET byEase == (Input.interval * Input.easeFactor) \div 100
            grown == (byEase * settings.intervalMultiplier) \div 100
            stored == IF grown <= settings.maxInterval * 1440
                      THEN grown ELSE settings.maxInterval * 1440
        IN  /\ result.card.interval = stored
            /\ result.card.easeFactor = Input.easeFactor
            /\ result.nextReview = At + stored * 60
            /\ card.nextReview = result.nextReview
            /\ result.card.learningState =
                  (IF stored >= 21 * 1440 THEN "mature" ELSE "review")
            /\ (Input.interval = 1440 /\ Input.easeFactor = 250
                   /\ settings.intervalMultiplier = 100) =>
                  /\ result.card.interval = 3600
                  /\ result.card.learningState = "review"

C15_Witness ==
    /\ Called
    /\ Input.learningState = "mature"
    /\ Input.interval = 28800
    /\ Input.easeFactor = 250
    /\ Rating = "good"
    /\ settings.maxInterval = 10
    /\ result.card.interval = 14400
    /\ result.card.learningState = "review"

\* The 20-day item of C16 rated 'easy' under easyBonus 1.3 and multiplier 1.0
EasyOnTwentyDays ==
    /\ Called
    /\ Input.learningState = "review"
    /\ Input.interval = 20 * 1440
    /\ Input.easeFactor = 200
    /\ Rating = "easy"
    /\ settings.easyBonus = 130
    /\ settings.intervalMultiplier = 100

\* C16 as stated: that item gets 52 days, stored capped at maxInterval,
\* easeFactor 2.15, and is mature for every value of maxInterval because the
\* interval before the cap is at least 21 days.
C16_EasyMatureForEveryMax ==
    EasyOnTwentyDays =>
        /\ result.card.interval = Min(52, settings.maxInterval) * 1440
        /\ result.card.easeFactor = 215
        /\ result.card.learningState = "mature"

\* C16 as amended: that item gets 52 days, stored capped at maxInterval,
\* easeFactor 2.15, and is mature iff the stored (capped) interval is at least
\* 21 days, that is iff maxInterval >= 21; otherwise it is review.
C16_EasyMatureByStoredInterval ==
    EasyOnTwentyDays =>
        /\ result.card.interval = Min(52, settings.maxInterval) * 1440
        /\ result.card.easeFactor = 215
        /\ result.nextReview = At + Min(52, settings.maxInterval) * 86400
        /\ result.card.learningState =
              (IF settings.maxInterval >= 21 THEN "mature" ELSE "review")

C16_Witness ==
    /\ EasyOnTwentyDays
    /\ settings.maxInterval = 10
    /\ result.card.interval = 14400
    /\ result.card.learningState = "review"

-----------------------------------------------------------------------------
(* Queue builder claims                                                    *)

Built == phase = "built"
IdsOf(list) == {list[i].id : i \in DOMAIN list}
PlacesOf(q, id) == {p \in DOMAIN q : q[p].id = id}
IsFromNew(e) == e.id \in IdsOf(newCards)
IsFromDue(e) == e.id \in IdsOf(dueCards)

\* The shape C4 states of a queue q returned for due, new and cap limit
QueueShape(q, due, new, limit) ==
    LET L == Len(due)
        K == Min(limit, Len(new))
        m == Min(L \div 10, K)
    IN  /\ Len(q) = L + K
        /\ \A i \in 1..L : Cardinality(PlacesOf(q, due[i].id)) = 1
        /\ \A j \in 1..K : Cardinality(PlacesOf(q, new[j].id)) = 1
        /\ \A j \in 1..m :
             /\ q[11 * j].id = new[j].id
             /\ q[11 * j - 1].id \in IdsOf(due)
             /\ Cardinality({p \in 1..(11 * j - 1) : q[p].id \in IdsOf(due)}) = 10 * j
        /\ \A j \in (m + 1)..K : q[L + j].id = new[j].id

\* C4: for L due items, N new items and a cap C >= 0 the queue has length
\* L + min(C, N) and holds every due item once and the first min(C, N) new
\* items once; min(floor(L/10), min(C, N)) new items are interleaved, the j-th
\* right after the (10*j)-th due item, and the other capped new items follow
\* the last due item in order; the argument lists are left as they were.
C4_QueueShape ==
    [][(phase = "builder" /\ phase' = "built") =>
          /\ QueueShape(built', dueCards, newCards, newCardsLimit)
          /\ dueCards' = dueCards
          /\ newCards' = newCards]_vars

C4_Witness ==
    /\ Built
    /\ Len(dueCards) = 21
    /\ Len(newCards) = 3
    /\ newCardsLimit = 4
    /\ Len(built) = 24
    /\ built[11].isNew /\ built[22].isNew /\ built[24].isNew
    /\ ~built[23].isNew
    /\ \E i \in 1..20 : dueCards[i].nextReview > dueCards[i + 1].nextReview

\* C5: the due entries of the returned queue are in non-decreasing nextReview
\* order whatever order they were supplied in, the interleaved new entries
\* notwithstanding, and none is missing.
C5_DueSortedByNextReview ==
    Built =>
        /\ \A p, r \in DOMAIN built :
             (p < r /\ IsFromDue(built[p]) /\ IsFromDue(built[r])) =>
                 built[p].nextReview <= built[r].nextReview
        /\ \A i \in DOMAIN dueCards : PlacesOf(built, dueCards[i].id) # {}

C5_Witness ==
    /\ Built
    /\ Len(dueCards) >= 12
    /\ \E i \in 1..11 : dueCards[i].nextReview > dueCards[i + 1].nextReview
    /\ \E i, j \in 1..12 : i < j /\ dueCards[i].nextReview = dueCards[j].nextReview
    /\ built[11].isNew
    /\ ~built[12].isNew
    /\ built[1].nextReview < built[12].nextReview

NewEntriesOf(q) == SelectSeq(q, IsFromNew)

\* C6: at most newCardsLimit new items are introduced, the first ones of the
\* supplied new list in their supplied order; every entry from the new list is
\* tagged isNew = true, stepIndex = 0 and every entry from the due list
\* isNew = false.
C6_NewCappedAndTagged ==
    Built =>
        LET entries == NewEntriesOf(built)
        IN  /\ Len(entries) <= newCardsLimit
            /\ Len(entries) <= Len(newCards)
            /\ \A j \in DOMAIN entries :
                 /\ entries[j].id = newCards[j].id
                 /\ entries[j].isNew = TRUE
                 /\ entries[j].stepIndex = 0
            /\ \A p \in DOMAIN built :
                 IsFromDue(built[p]) => built[p].isNew = FALSE

C6_Witness ==
    /\ Built
    /\ Len(newCards) = 3
    /\ newCardsLimit = 2
    /\ Len(dueCards) = 10
    /\ Len(NewEntriesOf(built)) = 2
    /\ built[11].stepIndex = 0
    /\ newCards[1].stepIndex = Undefined

-----------------------------------------------------------------------------
(* Study session claims                                                    *)

\* C18: the record handleRating writes to the item store holds Item fields
\* only, never the session-only annotation isNew.
C18_IsNewNeverStored ==
    \A k \in DOMAIN cards : "isNew" \notin DOMAIN cards[k]

\* The stored item was written by a rating (items are stored with updatedAt 0)
Rated(c) == c.updatedAt > 0
\* The review-log record of the rating that wrote the stored item c
LogOf(c, l) ==
    /\ l.cardId = c.id
    /\ l.reviewedAt = c.updatedAt
    /\ l.interval = c.interval
    /\ l.easeFactor = c.easeFactor

\* C17: writing the updated item and appending the review-log record are one
\* atomic unit: whenever no handleRating call is between its two writes, the
\* page having gone away there included, every stored item a rating updated
\* has the review-log record of that rating.
C17_UpdateAndLogAtomic ==
    phase \in {"studying", "logged", "finished", "gone"} =>
        \A k \in DOMAIN cards :
            Rated(cards[k]) =>
                \E l \in DOMAIN reviewLogs : LogOf(cards[k], reviewLogs[l])

HasStepIndex(c) == c.stepIndex # Undefined
OnLadder(c) == c.learningState \in {"new", "learning"}

\* C12: in every state of an item, as created, as queued and after any
\* ratings, stepIndex is present iff learningState is new or learning.
C12_StepIndexIffOnLadder ==
    /\ \A k \in DOMAIN cards : HasStepIndex(cards[k]) <=> OnLadder(cards[k])
    /\ \A p \in DOMAIN queue : HasStepIndex(queue[p]) <=> OnLadder(queue[p])

\* A queue entry that 'again' re-inserted: its item is queued earlier too
Reinserted(p) == \E e \in 1..(p - 1) : queue[e].id = queue[p].id
\* The entries presented so far are those up to the current one
Presented(p) == p <= currentIndex + 1

\* C2: a card rated 'again' during a session is presented again before the
\* session is finished, at every queue position, the last one included.
C2_AgainResurfaces ==
    phase = "finished" =>
        \A p \in DOMAIN queue : Reinserted(p) => Presented(p)

\* A step that handled the rating 'again'
AgainStep ==
    /\ sessionStats'.reviewed = sessionStats.reviewed + 1
    /\ lastRated'.rating = "again"

\* C3: 'again' at index i with remaining = queue.length - i entries splices
\* the updated entry in at i + R, min(8, remaining) <= R <= min(12, remaining):
\* the index is above i and at most the queue's length before the splice, the
\* entries up to i stay where they are, and with another entry remaining the
\* re-inserted card is not the next one presented.
C3_ReinsertPosition ==
    [][AgainStep =>
         LET i == currentIndex
             remaining == Len(queue) - i
             current == queue[i + 1]
         IN  /\ Len(queue') = Len(queue) + 1
             /\ \E R \in Min(8, remaining)..Min(12, remaining) :
                  LET pos == Min(i + R, Len(queue))
                  IN  /\ pos > i
                      /\ pos <= Len(queue)
                      /\ queue'[pos + 1].id = current.id
                      /\ queue'[pos + 1].isNew = FALSE
                      /\ \A p \in 1..pos : queue'[p] = queue[p]
                      /\ \A p \in (pos + 1)..Len(queue) : queue'[p + 1] = queue[p]
             /\ \A p \in 1..(i + 1) : queue'[p] = queue[p]
             /\ remaining >= 2 =>
                  /\ queue'[i + 2] = queue[i + 2]
                  /\ queue'[i + 2].id # current.id]_vars

C3_Witness ==
    /\ lastRated = [rating |-> "again", index |-> 1]
    /\ Len(queue) = 14
    /\ queue[11].id = queue[2].id
    /\ queue[11].learningState = "learning"
    /\ currentIndex = 2

-----------------------------------------------------------------------------
(* Cloze claims                                                            *)

IsDeletion(piece) == piece.deletion
DeletionsOf(pieces) == SelectSeq(pieces, IsDeletion)
\* The largest slot number among the deletions written, 0 without any
MaxSlot(pieces) ==
    LET slots == {pieces[i].slot : i \in {j \in DOMAIN pieces : pieces[j].deletion}}
    IN  IF slots = {} THEN 0 ELSE CHOOSE m \in slots : \A k \in slots : k <= m
IsClozePart(part) == part.type = "cloze"
IsTargetPart(part) == part.type \in {"blank", "revealed"}
OfShownTarget(piece) == piece.deletion /\ piece.slot = shown.target

\* C19: parseClozeText's clozeCount is the largest slot number K among the
\* deletions of the text (0 when there is none), not their number: each
\* deletion is a part of its own with its K, and the deletions that share the
\* target slot are all blanked in question mode and all revealed in answer
\* mode, no other deletion being so.
C19_ClozeCountIsMaxSlot ==
    /\ phase = "parsed" =>
          LET clozes == SelectSeq(parsed.parts, IsClozePart)
              written == DeletionsOf(authored)
          IN  /\ parsed.clozeCount = MaxSlot(authored)
              /\ Len(clozes) = Len(written)
              /\ \A i \in DOMAIN clozes :
                   /\ clozes[i].index = written[i].slot
                   /\ clozes[i].content = written[i].answer
    /\ phase = "shown" =>
          LET hidden == SelectSeq(shown.parts, IsTargetPart)
              written == SelectSeq(authored, OfShownTarget)
          IN  /\ Len(hidden) = Len(written)
              /\ \A i \in DOMAIN hidden :
                   IF shown.isAnswer
                   THEN /\ hidden[i].type = "revealed"
                        /\ hidden[i].content = written[i].answer
                   ELSE /\ hidden[i].type = "blank"
                        /\ hidden[i].content =
                              (IF written[i].hint = <<>> THEN <<".", ".", ".">>
                               ELSE written[i].hint)

C19_Witness ==
    /\ phase = "parsed"
    /\ Len(authored) = 2
    /\ authored[1].deletion /\ authored[1].slot = 1
    /\ authored[2].deletion /\ authored[2].slot = 1
    /\ authored[1] # authored[2]
    /\ parsed.clozeCount = 1
    /\ Len(parsed.parts) = 2

Created == phase \in {"created", "imported"}

\* The state C20 gives each created item, item i being built at most i - 1
\* clock ticks after the first
InitialState(item, i) ==
    /\ item.clozeIndex = i
    /\ item.learningState = "new"
    /\ item.interval = 0
    /\ item.repetitions = 0
    /\ item.lapses = 0
    /\ item.nextReview = item.createdAt
    /\ item.nextReview \in now..(now + i - 1)

IsSpace(piece) == piece.chars = <<" ">>
\* The pieces without the spaces written before the first and after the last
\* other piece
RECURSIVE WithoutLeading(_)
WithoutLeading(pieces) ==
    IF pieces # <<>> /\ IsSpace(Head(pieces))
    THEN WithoutLeading(Tail(pieces)) ELSE pieces
Reversed(pieces) == [i \in DOMAIN pieces |-> pieces[Len(pieces) + 1 - i]]
WithoutOuterSpaces(pieces) ==
    Reversed(WithoutLeading(Reversed(WithoutLeading(pieces))))

PartFor(piece, T, isAnswer) ==
    IF piece.slot # T THEN [type |-> "text", content |-> piece.answer]
    ELSE IF isAnswer
    THEN [type |-> "revealed", content |-> piece.answer, hint |-> piece.hint]
    ELSE [type |-> "blank", hint |-> piece.hint,
          content |-> IF piece.hint = <<>> THEN <<".", ".", ".">> ELSE piece.hint]

\* The parts the written pieces are to show: one per deletion, and one for
\* each stretch of text outside the deletions, outside being the stretch
\* gathered so far
RECURSIVE PartsFor(_, _, _, _)
PartsFor(pieces, T, isAnswer, outside) ==
    LET stretch == IF outside = <<>> THEN <<>>
                   ELSE <<[type |-> "text", content |-> outside]>>
    IN  IF pieces = <<>> THEN stretch
        ELSE IF Head(pieces).deletion
        THEN stretch \o <<PartFor(Head(pieces), T, isAnswer)>>
               \o PartsFor(Tail(pieces), T, isAnswer, <<>>)
        ELSE PartsFor(Tail(pieces), T, isAnswer, outside \o Head(pieces).chars)

\* The string the written pieces are to show
RECURSIVE StringFor(_, _, _)
StringFor(pieces, T, isAnswer) ==
    IF pieces = <<>> THEN <<>>
    ELSE LET piece == Head(pieces)
             here == IF ~piece.deletion THEN piece.chars
                     ELSE IF piece.slot # T THEN piece.answer
                     ELSE IF isAnswer
                     THEN <<"*", "*">> \o piece.answer \o <<"*", "*">>
                     ELSE IF piece.hint = <<>> THEN <<"[", ".", ".", ".", "]">>
                     ELSE <<"[">> \o piece.hint \o <<"]">>
         IN  here \o StringFor(Tail(pieces), T, isAnswer)

\* C21: rendering a text for target slot T replaces every deletion of slot T,
\* in question mode by its hint or else the generic placeholder (its answer
\* not standing there), in answer mode by its answer marked as revealed
\* (bold in the string version); every deletion of another slot is replaced
\* by its plain answer in both modes; the text outside the deletions comes
\* out unchanged and in its order.
C21_TargetHiddenOthersShown ==
    /\ phase = "shown" =>
          shown.parts = PartsFor(authored, shown.target, shown.isAnswer, <<>>)
    /\ phase = "rendered" =>
          rendered.text = StringFor(authored, rendered.target, rendered.isAnswer)

\* {{c1::a}} is {{c2::b b}} shown for slot 1 in question mode
C21_Witness ==
    /\ phase = "shown"
    /\ shown.target = 1
    /\ ~shown.isAnswer
    /\ Len(authored) = 2
    /\ authored[1].deletion /\ authored[1].slot = 1 /\ authored[1].hint = <<>>
    /\ authored[2].deletion /\ authored[2].slot = 2
    /\ shown.parts = <<[type |-> "blank", hint |-> <<>>, content |-> <<".", ".", ".">>],
                       [type |-> "text", content |-> <<"b", " ", "b">>]>>

-----------------------------------------------------------------------------
(* Claims about the single branches of the scheduler                       *)

InLearning(c) == c.learningState \in {"new", "learning"}

\* C23: 'again' on a new or learning item yields learningState learning,
\* stepIndex 0, repetitions 0, easeFactor max(1.3, easeFactor - 0.2) and
\* nextReview = now + learningSteps[0] minutes; lapses grows by 1 if and only
\* if the item was already learning (not new); interval is unchanged.
C23_LearningAgain ==
    (Called /\ InLearning(Input) /\ Rating = "again") =>
        /\ result.card.learningState = "learning"
        /\ result.card.stepIndex = 0
        /\ result.card.repetitions = 0
        /\ result.card.easeFactor =
              (IF Input.easeFactor - 20 > 130 THEN Input.easeFactor - 20 ELSE 130)
        /\ Len(settings.learningSteps) >= 1 =>
              result.nextReview = At + settings.learningSteps[1] * 60
        /\ Input.learningState = "learning" => result.card.lapses = Input.lapses + 1
        /\ Input.learningState = "new" => result.card.lapses = Input.lapses
        /\ result.card.interval = Input.interval

C23_Witness ==
    /\ Called
    /\ Input.learningState = "learning"
    /\ Input.stepIndex = 1
    /\ Input.lapses = 1
    /\ Input.easeFactor = 140
    /\ Rating = "again"
    /\ settings.learningSteps = <<2, 5, 20>>
    /\ result.card.lapses = 2
    /\ result.card.easeFactor = 130
    /\ result.nextReview = At + 120

\* C24: 'hard' on a new or learning item keeps stepIndex (0 when absent),
\* yields learningState learning and nextReview = now + 1.5 times
\* learningSteps[stepIndex] minutes, and leaves easeFactor, interval,
\* repetitions and lapses unchanged.
C24_LearningHard ==
    (Called /\ InLearning(Input) /\ Rating = "hard") =>
        LET stepIndex == IF Input.stepIndex = Undefined THEN 0 ELSE Input.stepIndex
        IN  /\ result.card.learningState = "learning"
            /\ result.card.stepIndex = stepIndex
            /\ stepIndex < Len(settings.learningSteps) =>
                  2 * (result.nextReview - At)
                     = 3 * settings.learningSteps[stepIndex + 1] * 60
            /\ result.card.easeFactor = Input.easeFactor
            /\ result.card.interval = Input.interval
            /\ result.card.repetitions = Input.repetitions
            /\ result.card.lapses = Input.lapses

C24_Witness ==
    /\ Called
    /\ Input.learningState = "learning"
    /\ Input.stepIndex = 1
    /\ Input.easeFactor = 200
    /\ Rating = "hard"
    /\ settings = DEFAULT_SETTINGS
    /\ result.card.stepIndex = 1
    /\ result.card.easeFactor = 200
    /\ result.nextReview = At + 900

\* C25: 'easy' on a new or learning item graduates it from any step:
\* learningState review, interval graduatingInterval * easyBonus days in
\* minutes, easeFactor + 0.15, repetitions 1, no stepIndex, and nextReview =
\* now + that interval; lapses is unchanged.
C25_LearningEasy ==
    (Called /\ InLearning(Input) /\ Rating = "easy") =>
        LET interval == (settings.graduatingInterval * 1440 * settings.easyBonus) \div 100
        IN  /\ result.card.learningState = "review"
            /\ result.card.interval = interval
            /\ result.card.easeFactor = Input.easeFactor + 15
            /\ result.card.repetitions = 1
            /\ result.card.stepIndex = Undefined
            /\ result.nextReview = At + interval * 60
            /\ result.card.lapses = Input.lapses

C25_Witness ==
    /\ Called
    /\ Input.learningState = "learning"
    /\ Input.stepIndex = 0
    /\ Input.lapses = 1
    /\ Rating = "easy"
    /\ settings.learningSteps = <<2, 5, 20>>
    /\ result.card.learningState = "review"
    /\ result.card.interval = 1872
    /\ result.card.lapses = 1

\* C26: 'hard' on a review or mature item yields interval min(current
\* interval in days * hardMultiplier, maxInterval), easeFactor
\* max(1.3, easeFactor - 0.15), learningState read off the capped interval
\* and nextReview = now + the capped interval; lapses is unchanged.
C26_ReviewHard ==
    (Called /\ InReview(Input) /\ Rating = "hard") =>
        LET grown == (Input.interval * settings.hardMultiplier) \div 100
            most == settings.maxInterval * 1440
            capped == IF grown < most THEN grown ELSE most
        IN  /\ result.card.interval = capped
            /\ result.card.easeFactor =
                  (IF Input.easeFactor - 15 > 130 THEN Input.easeFactor - 15 ELSE 130)
            /\ result.card.learningState =
                  (IF capped >= 21 * 1440 THEN "mature" ELSE "review")
            /\ result.nextReview = At + capped * 60
            /\ result.card.lapses = Input.lapses

C26_Witness ==
    /\ Called
    /\ Input.learningState = "mature"
    /\ Input.interval = 28800
    /\ Rating = "hard"
    /\ settings.maxInterval = 10
    /\ result.card.interval = 14400
    /\ result.card.learningState = "review"

\* C27: 'again' on a review or mature item sets interval to max(1 day, half
\* the current interval) in minutes and easeFactor to
\* max(1.3, easeFactor - 0.2), and nextReview = now + 10 minutes exactly,
\* whatever learningSteps and the halved interval are.
C27_ReviewAgain ==
    (Called /\ InReview(Input) /\ Rating = "again") =>
        /\ result.card.interval =
              (IF Input.interval \div 2 > 1440 THEN Input.interval \div 2 ELSE 1440)
        /\ result.card.easeFactor =
              (IF Input.easeFactor - 20 > 130 THEN Input.easeFactor - 20 ELSE 130)
        /\ result.nextReview = At + 600

C27_Witness ==
    /\ Called
    /\ Input.learningState = "mature"
    /\ Input.interval = 144000
    /\ Rating = "again"
    /\ settings.learningSteps = <<2, 5, 20>>
    /\ result.card.interval = 72000
    /\ result.nextReview = At + 600

-----------------------------------------------------------------------------
(* Life specification: an item made by createCard, as stored or as the     *)
(* queue builder hands it to the session, is rated up to MaxLifeRatings    *)
(* times, each rating some time after the one before, the caller writing   *)
(* the result back as Study.tsx's handleRating does.                       *)

MaxLifeRatings == 4

\* The time from one rating to the next, seconds: ten minutes, a day
Waits == {600, DAY}

\* Settings whose graduating interval is weeks long: graduatingInterval is
\* taken from the stored settings as it comes, 25 days here under a
\* 30-day maxInterval
LongGraduation ==
    [DEFAULT_SETTINGS EXCEPT !.graduatingInterval = 25, !.maxInterval = 30]

LifeSettingsSet == SettingsSet \cup {LongGraduation}

LifeInit ==
    /\ settings \in LifeSettingsSet
    /\ now = 1000
    /\ card \in {Spread(createCard(1, settings, now), [isNew |-> TRUE]),
                 NewEntry(createCard(1, settings, now))}
    /\ result = NoResult
    /\ trace = <<>>
    /\ nextIntervals = NoIntervals
    /\ phase = "life"
    /\ BuilderIdle
    /\ SessionIdle
    /\ ClozeIdle

LifeRate(rating, wait) ==
    /\ Len(trace) < MaxLifeRatings
    /\ now' = now + wait
    /\ result' = scheduleCard(card, rating, settings, now')
    /\ card' = [result'.card EXCEPT !.nextReview = result'.nextReview]
    /\ trace' = Append(trace, [rating |-> rating, at |-> now',
                                card |-> scheduleCardArgument(card, rating, settings, now')])
    /\ UNCHANGED <<nextIntervals, settings, phase, builderVars, sessionVars, clozeVars>>

LifeNext == \E rating \in Ratings, wait \in Waits : LifeRate(rating, wait)

LifeSpec == LifeInit /\ [][LifeNext]_vars

\* The item as rating k found it and as rating k left it
Before(k) == trace[k].card
After(k) == IF k = Len(trace) THEN card ELSE trace[k + 1].card

Agains == {k \in DOMAIN trace : trace[k].rating = "again"}
\* The most recent 'again', 0 when there is none
LastAgain == IF Agains = {} THEN 0 ELSE CHOOSE k \in Agains : \A j \in Agains : j <= k

\* C28 as stated: after any sequence of ratings given to a newly created
\* item, lapses is the number of 'again' ratings it received while review or
\* mature.
C28_LapsesCountReviewAgains ==
    card.lapses = Cardinality({k \in Agains : InReview(Before(k))})

\* C28 as amended: after any sequence of ratings given to a newly created
\* item, lapses is the number of 'again' ratings it received while learning,
\* review or mature, that is every 'again' but those it received while new.
C28_LapsesCountAgainsAfterNew ==
    card.lapses = Cardinality({k \in Agains : Before(k).learningState # "new"})

\* 'again' twice on the new item: the second finds it learning
C28_Witness ==
    /\ Len(trace) = 2
    /\ trace[1].rating = "again"
    /\ trace[2].rating = "again"
    /\ Before(1).learningState = "new"
    /\ Before(2).learningState = "learning"
    /\ card.lapses = 1

\* C29 as stated: after any sequence of ratings given to a newly created
\* item, repetitions is the number of consecutive ratings other than 'again'
\* since the most recent 'again' (or since creation).
C29_RepetitionsCountStreak ==
    card.repetitions = Len(trace) - LastAgain

\* C29 as amended: after any sequence of ratings given to a newly created
\* item, repetitions is the number of consecutive ratings other than 'again'
\* since the most recent 'again' (or since creation) that graduated the item
\* or were received while it was review or mature.
C29_RepetitionsCountFromGraduation ==
    card.repetitions =
        Cardinality({k \in (LastAgain + 1)..Len(trace) :
                        InReview(Before(k)) \/ InReview(After(k))})

\* 'good', 'good', 'hard' under the default ladder: a step, the graduation,
\* a review
C29_Witness ==
    /\ settings = DEFAULT_SETTINGS
    /\ Len(trace) = 3
    /\ trace[1].rating = "good"
    /\ trace[2].rating = "good"
    /\ trace[3].rating = "hard"
    /\ Before(2).learningState = "learning"
    /\ Before(3).learningState = "review"
    /\ card.repetitions = 2

-----------------------------------------------------------------------------
(* Overlap specification: Study's handleRating with nothing to keep a      *)
(* second key press or click from starting a call while an earlier call    *)
(* for the same entry awaits its writes.  Every call works on the queue,   *)
(* currentIndex, currentCard and cardStartTime of the render that made it  *)
(* (the useCallback closure); setQueue and setCurrentIndex store values    *)
(* computed from those, setSessionStats updates the state as it is.  The   *)
(* awaited writes settle in the order they were issued.                    *)

MaxInFlight == 2
MaxOverlapRatings == 3

\* handleRating up to `await db.cards.update(...)`
OverlapStart(rating, t) ==
    /\ phase = "studying"
    /\ showAnswer
    /\ currentIndex < Len(queue)
    /\ Len(inFlight) < MaxInFlight
    /\ sessionStats.reviewed + Len(inFlight) < MaxOverlapRatings
    /\ t >= now
    /\ LET currentCard == queue[currentIndex + 1]
           r == scheduleCard(currentCard, rating, settings, t)
       IN  /\ cards' = UpdateItem(cards, currentCard.id,
                                  Spread(r.card, [nextReview |-> r.nextReview]))
           /\ inFlight' = Append(inFlight,
                  [rating |-> rating, result |-> r, currentCard |-> currentCard,
                   queue |-> queue, currentIndex |-> currentIndex,
                   timeTaken |-> t - cardStartTime, sessionStats |-> sessionStats,
                   logged |-> FALSE])
    /\ lastRated' = [rating |-> rating, index |-> currentIndex]
    /\ now' = t
    /\ UNCHANGED <<reviewLogs, queue, currentIndex, showAnswer, sessionStats,
                   cardStartTime, dailyStats, phase, settings, schedVars,
                   builderVars, clozeVars>>

\* The oldest call that has not logged yet, up to `await db.reviewLogs.add(...)`
OverlapAddLog ==
    /\ \E i \in DOMAIN inFlight :
          /\ ~inFlight[i].logged
          /\ \A j \in 1..(i - 1) : inFlight[j].logged
          /\ LET call == inFlight[i]
             IN  reviewLogs' = Append(reviewLogs,
                     [cardId |-> call.currentCard.id, rating |-> call.rating,
                      interval |-> call.result.card.interval,
                      easeFactor |-> call.result.card.easeFactor,
                      reviewedAt |-> now, timeTaken |-> call.timeTaken])
          /\ inFlight' = [inFlight EXCEPT ![i].logged = TRUE]
    /\ UNCHANGED <<cards, queue, currentIndex, showAnswer, sessionStats,
                   cardStartTime, dailyStats, lastRated, phase, settings, now,
                   schedVars, builderVars, clozeVars>>

\* The rest of the oldest call: statistics, re-insertion at pos in the
\* call's own copy of the queue, the next entry or finishSession
OverlapAdvance(pos) ==
    /\ inFlight # <<>>
    /\ Head(inFlight).logged
    /\ LET call == Head(inFlight)
       IN  /\ sessionStats' =
                  [reviewed |-> sessionStats.reviewed + 1,
                   correct |-> sessionStats.correct
                                 + (IF call.rating # "again" THEN 1 ELSE 0),
                   newLearned |-> sessionStats.newLearned
                                 + (IF call.currentCard.isNew THEN 1 ELSE 0)]
           /\ queue' = IF call.rating = "again"
                       THEN QueueAfter(call.queue, call.rating, pos, call.result)
                       ELSE queue
           /\ IF HasNext(call.queue, call.currentIndex)
              THEN /\ currentIndex' = call.currentIndex + 1
                   /\ showAnswer' = FALSE
                   /\ cardStartTime' = now
                   /\ UNCHANGED <<phase, dailyStats>>
              ELSE /\ dailyStats' = [cardsReviewed |-> call.sessionStats.reviewed,
                                     cardsCorrect |-> call.sessionStats.correct,
                                     newCardsStudied |-> call.sessionStats.newLearned]
                   /\ phase' = "finished"
                   /\ UNCHANGED <<currentIndex, showAnswer, cardStartTime>>
    /\ inFlight' = Tail(inFlight)
    /\ UNCHANGED <<cards, reviewLogs, lastRated, settings, now, schedVars,
                   builderVars, clozeVars>>

OverlapStarts == \E rating \in Ratings, t \in Times : OverlapStart(rating, t)
OverlapEnds ==
    /\ inFlight # <<>>
    /\ \E pos \in ReinsertPositions(Head(inFlight).queue,
                                     Head(inFlight).currentIndex) :
          OverlapAdvance(pos)

OverlapNext ==
    LoadQueue \/ ShowAnswer \/ OverlapStarts \/ OverlapAddLog \/ OverlapEnds

OverlapSpec == Init /\ [][OverlapNext]_vars

\* A step in which a call of handleRating has done its part on the session
\* state, and whether its rating was 'again'
RatingDone == sessionStats'.reviewed = sessionStats.reviewed + 1
WasAgain == sessionStats'.correct = sessionStats.correct

\* C30: on 'again' the entry re-inserted into the queue carries the
\* scheduler's updated state (learning, stepIndex 0, the updated easeFactor
\* and lapses, nextReview the scheduler's returned timestamp) with isNew
\* false, and the queue grows by exactly that one entry; a rating of hard,
\* good or easy leaves the queue's length and content as they were.
C30_AgainAddsOneUpdatedEntry ==
    [][RatingDone =>
         IF WasAgain
         THEN LET r == Head(inFlight).result
              IN  /\ Len(queue') = Len(queue) + 1
                  /\ \E pos \in 0..Len(queue) :
                        LET entry == queue'[pos + 1]
                        IN  /\ queue' = Splice(queue, pos, entry)
                            /\ entry.id = r.card.id
                            /\ entry.learningState = "learning"
                            /\ entry.stepIndex = 0
                            /\ entry.easeFactor = r.card.easeFactor
                            /\ entry.lapses = r.card.lapses
                            /\ entry.nextReview = r.nextReview
                            /\ entry.isNew = FALSE
         ELSE queue' = queue]_vars

-----------------------------------------------------------------------------
(* Preview claims                                                          *)

\* The delay scheduleCard assigns for a rating when called at the time now
DelayFor(rating) == Minus(scheduleCard(card, rating, settings, now).nextReview, now)

\* C31: for each rating the string getNextIntervals returns is the compact
\* format of exactly the delay scheduleCard assigns for that rating
\* (nextReview minus the now of that call), however much clock time passes
\* between the scheduling call and the formatting; a delay of exactly one
\* minute previews as '1m' and one of exactly one day as '1d'.
C31_PreviewIsFormatOfDelay ==
    (phase = "preview" /\ trace = <<>> /\ nextIntervals # NoIntervals) =>
        \A rating \in Ratings :
            /\ nextIntervals[rating] = formatInterval(DelayFor(rating))
            /\ DelayFor(rating) = 60 => nextIntervals[rating] = [n |-> 1, unit |-> "m"]
            /\ DelayFor(rating) = 86400 => nextIntervals[rating] = [n |-> 1, unit |-> "d"]

-----------------------------------------------------------------------------
(* Cloze expansion                                                         *)

\* The distinct slot numbers K (positive, as the grammar has them) of the
\* deletions written
SlotsOf(pieces) ==
    {pieces[i].slot : i \in {j \in DOMAIN pieces :
                                pieces[j].deletion /\ pieces[j].slot >= 1}}

\* C32: expanding a cloze text makes one item per distinct deletion index:
\* the number of items is the number of distinct K in the text, and every
\* item's slot occurs as a deletion in its text (so each item hides at least
\* one deletion in question mode), also when the indices used are not
\* contiguous from 1.
C32_ItemPerDistinctSlot ==
    Created =>
        /\ Len(created) = Cardinality(SlotsOf(authored))
        /\ \A i \in DOMAIN created : created[i].clozeIndex \in SlotsOf(authored)

-----------------------------------------------------------------------------
(* Overlapping calls                                                       *)

\* C33: each presentation of a queue entry yields exactly one item write and
\* exactly one review-log record and advances currentIndex by exactly one,
\* also when a second rating input arrives while an earlier handleRating call
\* for the same entry is still awaiting its writes.  Every call in flight has
\* made its item write; the entries presented so far are those up to
\* currentIndex.
C33_OneWriteOneLogPerPresentation ==
    /\ \A i, j \in DOMAIN inFlight :
          i # j => inFlight[i].currentIndex # inFlight[j].currentIndex
    /\ Len(reviewLogs) <= currentIndex + 1
    /\ (phase = "studying" /\ inFlight = <<>>) => Len(reviewLogs) = currentIndex

\* queue.length - currentIndex
Remaining == Len(queue) - currentIndex

\* C34, its safety part: while the session goes on over a queue with entries
\* currentIndex < queue.length, and the number of remaining entries never
\* increases: a rating of 'again' leaves it unchanged and hard, good or easy
\* make it one less (the rating that finishes the session moves no index).
C34_RemainingNeverIncreases ==
    /\ []((phase = "studying" /\ queue # <<>>) => currentIndex < Len(queue))
    /\ [][RatingDone =>
            /\ Remaining' <= Remaining
            /\ phase' = "studying" =>
                  Remaining' = (IF WasAgain THEN Remaining ELSE Remaining - 1)]_vars

\* C35: an item is new only before its first rating: after any sequence of
\* ratings its learningState is learning, review or mature, and the new-items
\* query does not select it.
C35_RatedItemNeverNew ==
    \A k \in DOMAIN trace :
        /\ After(k).learningState \in {"learning", "review", "mature"}
        /\ getNewCards(<<After(k)>>, 1) = <<>>

\* a new item that graduated and lapsed: it is back on the ladder, not new
C35_Witness ==
    /\ Len(trace) >= 3
    /\ Before(1).learningState = "new"
    /\ getNewCards(<<Before(1)>>, 1) = <<Before(1)>>
    /\ Before(Len(trace)).learningState = "review"
    /\ card.learningState = "learning"

\* The item was queued as a new one: buildStudyQueue gave it stepIndex 0
QueuedNew == trace # <<>> /\ Before(1).learningState = "new" /\ Before(1).stepIndex = 0

\* C36: with a non-empty ladder, every item reached from a queued new item
\* that is in learning has 0 <= stepIndex < length(learningSteps), and every
\* rating of a new or learning item on the way got a due time computed from a
\* ladder entry that exists.
C36_StepIndexInLadder ==
    (QueuedNew /\ settings.learningSteps # <<>>) =>
        \A k \in DOMAIN trace :
            /\ After(k).learningState = "learning" =>
                  /\ 0 <= After(k).stepIndex
                  /\ After(k).stepIndex < Len(settings.learningSteps)
                  /\ StepAt(settings.learningSteps, After(k).stepIndex) # NaN
            /\ Before(k).learningState \in {"new", "learning"} =>
                  scheduleCard(Before(k), trace[k].rating, settings, trace[k].at).nextReview # NaN

\* an item on the last step of a three-step ladder, and one relearning after
\* a lapse
C36_Witness ==
    /\ QueuedNew
    /\ Len(settings.learningSteps) = 3
    /\ card.learningState = "learning"
    /\ \/ card.stepIndex = 2
       \/ /\ Before(Len(trace)).learningState = "review"
          /\ card.stepIndex = 0

\* mature exactly when the stored interval is 21 days or more
ByInterval(c) ==
    (c.learningState = "mature") <=> (c.interval >= MatureDays * MinutesPerDay)

Graduated(k) == Before(k).learningState \in {"new", "learning"}
                    /\ After(k).learningState \in {"review", "mature"}

\* C37 as stated: every review or mature item reached by ratings is mature
\* exactly when its stored interval is 21 days or more, the graduating item
\* included.
C37_MatureIffLongInterval ==
    \A k \in DOMAIN trace :
        After(k).learningState \in {"review", "mature"} => ByInterval(After(k))

\* C37, amended: a review or mature item left by hard, good or easy on a
\* review or mature item is mature exactly when its stored interval is 21
\* days or more; an item that has just graduated from the ladder is in review
\* whatever its interval.
C37_MatureIffLongIntervalAfterReview ==
    \A k \in DOMAIN trace :
        After(k).learningState \in {"review", "mature"} =>
            IF Graduated(k) THEN After(k).learningState = "review"
                            ELSE ByInterval(After(k))

\* an item that graduated into review with 21 days or more and was then
\* rated into mature by the review branch
C37_Witness ==
    /\ Len(trace) >= 2
    /\ \E k \in DOMAIN trace :
          /\ Graduated(k)
          /\ After(k).interval >= MatureDays * MinutesPerDay
    /\ ~Graduated(Len(trace))
    /\ card.learningState = "mature"

\* C38: in every state reached from a created item by ratings under a fixed
\* configuration, 0 <= interval <= maxInterval * 1440 minutes, right after a
\* graduation and after a lapse included.
C38_IntervalWithinMax ==
    /\ 0 <= card.interval
    /\ card.interval <= settings.maxInterval * MinutesPerDay

\* Pre-lapse intervals of the second item, minutes: 1, 10 and 100 days
TwinIntervals == {1440, 14400, 144000}

\* The item that ratings k..n of the trace, given at the same times, make of c
RECURSIVE Replay(_, _, _)
Replay(c, k, n) ==
    IF n < k THEN c
    ELSE LET r == scheduleCard(Replay(c, k, n - 1), trace[n].rating, settings, trace[n].at)
         IN  [r.card EXCEPT !.nextReview = r.nextReview]

\* Rating k was 'again' on a review or mature item
LapseAt(k) == Before(k).learningState \in {"review", "mature"} /\ trace[k].rating = "again"

\* From the lapse at k up to rating j the item has stayed on the ladder
Relearning(k, j) == \A i \in k..j : After(i).learningState = "learning"

\* C39: the halved interval an 'again' on a review or mature item stores does
\* not reach any later result: relearning ratings carry it unchanged, an item
\* differing only in its pre-lapse interval gets the same due times from
\* every rating from the lapse on, and re-graduation sets the interval to
\* graduatingInterval (times easyBonus for 'easy') in both.
C39_HalvedIntervalDormant ==
    \A k \in DOMAIN trace :
        LapseAt(k) =>
            \A iv \in TwinIntervals, j \in k..Len(trace) :
                LET twin == Replay([Before(k) EXCEPT !.interval = iv], k, j)
                    graduating == settings.graduatingInterval * MinutesPerDay
                IN  /\ twin.nextReview = After(j).nextReview
                    /\ IF Relearning(k, j)
                       THEN /\ After(j).interval = After(k).interval
                            /\ twin.interval = Max(MinutesPerDay, iv \div 2)
                            /\ [twin EXCEPT !.interval = After(j).interval] = After(j)
                       ELSE twin = After(j)
                    /\ (Relearning(k, j - 1) /\ j > k /\ ~Relearning(k, j)) =>
                          /\ After(j).interval =
                                (IF trace[j].rating = "easy"
                                 THEN Scale(graduating, settings.easyBonus, 100)
                                 ELSE graduating)
                          /\ twin.interval = After(j).interval

\* an item that lapsed, was rated on the ladder with the halved interval
\* carried along, and graduated again
C39_Witness ==
    /\ Len(trace) = 4
    /\ LapseAt(2)
    /\ After(2).interval # settings.graduatingInterval * MinutesPerDay
    /\ Relearning(2, 3)
    /\ trace[3].rating # "again"
    /\ card.learningState = "review"
    /\ trace[4].rating = "good"

\* C40: under the default configuration, for every item reached from a
\* created item by ratings, the delay to the next review grows with the
\* rating: delay(again) <= delay(hard) <= delay(good) <= delay(easy).
C40_DelayMonotoneInRating ==
    settings = DEFAULT_SETTINGS =>
        /\ \A rating \in Ratings : DelayFor(rating) # NaN
        /\ DelayFor("again") <= DelayFor("hard")
        /\ DelayFor("hard") <= DelayFor("good")
        /\ DelayFor("good") <= DelayFor("easy")

\* a review item whose ease two earlier failures have lowered, the four
\* delays all different; and it was on the second step of the ladder before
C40_Witness ==
    /\ settings = DEFAULT_SETTINGS
    /\ Len(trace) = MaxLifeRatings
    /\ card.learningState = "review"
    /\ card.easeFactor < DEFAULT_SETTINGS.defaultEaseFactor
    /\ Before(Len(trace)).stepIndex = 1
    /\ DelayFor("again") < DelayFor("hard")
    /\ DelayFor("hard") < DelayFor("good")
    /\ DelayFor("good") < DelayFor("easy")

====
